---- MODULE Spec2Model ----
(***************************************************************************)
(* Model of API_Digitalizacion: the POST /procesar endpoint (api.py), the  *)
(* UBL 2.1 extractor (procesador_xml.py), the PDF extractor                *)
(* (procesador_pdf.py) and the monetary token cleaner limpiar_monto of the *)
(* image processors (procesador_imagen_v5.py, procesador_imagen_v6.py).    *)
(*                                                                         *)
(* Python strings are sequences of one-character strings, so that strip,   *)
(* split, replace, int() and float() are computed, not assumed.            *)
(* A Python float is the decimal it denotes, [m, e] standing for m / 10^e  *)
(* with m carrying no trailing zero: exact for the at most 15 significant  *)
(* digits used here, which a 53-bit double keeps.                          *)
(***************************************************************************)
EXTENDS Integers, Sequences, FiniteSets, TLC

VARIABLES
    \* ---- api.py: one entry per request of the process
    upload,        \* request -> the uploaded file (filename, content)
    pc,            \* request -> position in procesar_documento
    nombre_temporal, \* request -> temp path chosen at api.py:32, or NoPath
    respuesta,     \* request -> what the handler returned or raised
    eventos,       \* request -> events of the request, in order
    disco,         \* paths existing on local disk -> content
    llamadas,      \* extractor invocations so far: <<extractor, path, request>>
    modelo_doctr,  \* procesador_imagen._modelo_doctr: "None" or "model"
    cargas,        \* number of ocr_predictor constructions
    corriendo,     \* request holding the event loop, 0 when idle
    uuids,         \* number of uuid4 values drawn
    \* ---- procesar_factura_xml / procesar_factura_pdf called on their own
    motor,         \* "xml" or "pdf": the extractor under test
    existe,        \* os.path.exists(ruta_archivo)
    xml,           \* the XML file: well-formedness and the parsed document
    pdf,           \* the PDF file: pages and text of the first page
    ediciones,     \* edits applied to the base document
    parseos,       \* number of ET.parse / pdfplumber.open calls
    resultado,     \* <<>> before the call, <<value>> after it
    \* ---- limpiar_monto
    valor_str,     \* the value handed to limpiar_monto / limpiar_moneda
    monto,         \* <<>> before the call, <<version, float>> after it
    \* ---- catalogos_sunat called on its own
    devuelto,      \* <<>> before the call, <<function, argument, result>> after it
    \* ---- the totals of procesar_factura_img (v5, v6)
    totales,       \* <<>> before the call, [version, entrada, respuesta] after it
    \* ---- the steps of the free-text extractors called on their own
    extraido       \* <<>> before the call, [paso, entrada, respuesta] after it

apiVars == <<upload, pc, nombre_temporal, respuesta, eventos, disco, llamadas,
             modelo_doctr, cargas, corriendo, uuids>>
extVars == <<motor, existe, xml, pdf, ediciones, parseos, resultado>>
montoVars == <<valor_str, monto>>
catVars == <<devuelto>>
totVars == <<totales>>
textoVars == <<extraido>>
otrosVars == <<catVars, totVars, textoVars>>
vars == <<apiVars, extVars, montoVars, otrosVars>>

(***************************************************************************)
(* Python str and float primitives                                         *)
(***************************************************************************)
Digits == {"0", "1", "2", "3", "4", "5", "6", "7", "8", "9"}

DigitVal(c) ==
    CASE c = "0" -> 0 [] c = "1" -> 1 [] c = "2" -> 2 [] c = "3" -> 3
      [] c = "4" -> 4 [] c = "5" -> 5 [] c = "6" -> 6 [] c = "7" -> 7
      [] c = "8" -> 8 [] c = "9" -> 9

Whitespace == {" ", "\t", "\n", "\r"}

RECURSIVE LStrip(_)
LStrip(s) == IF s # <<>> /\ Head(s) \in Whitespace THEN LStrip(Tail(s)) ELSE s

RECURSIVE RStrip(_)
RStrip(s) ==
    IF s # <<>> /\ s[Len(s)] \in Whitespace
    THEN RStrip(SubSeq(s, 1, Len(s) - 1)) ELSE s

\* str.strip()
Strip(s) == LStrip(RStrip(s))

\* str.replace(old, new): leftmost non-overlapping occurrences, old non-empty
RECURSIVE Replace(_, _, _)
Replace(s, old, new) ==
    IF Len(s) < Len(old) THEN s
    ELSE IF SubSeq(s, 1, Len(old)) = old
         THEN new \o Replace(SubSeq(s, Len(old) + 1, Len(s)), old, new)
         ELSE <<Head(s)>> \o Replace(Tail(s), old, new)

\* s[:n]
Prefijo(s, n) == SubSeq(s, 1, IF Len(s) < n THEN Len(s) ELSE n)

\* sub in s
Contains(s, sub) ==
    \E i \in 1..(Len(s) - Len(sub) + 1) : SubSeq(s, i, i + Len(sub) - 1) = sub

\* str.index(c): position of the first occurrence (1-based), c occurs in s
Index(s, c) == CHOOSE i \in 1..Len(s) : s[i] = c /\ \A j \in 1..(i - 1) : s[j] # c

\* str.split(sep)[-1] for a one-character sep: what follows the last sep
RECURSIVE SplitLast(_, _)
SplitLast(s, sep) ==
    IF \E i \in 1..Len(s) : s[i] = sep
    THEN SplitLast(SubSeq(s, Index(s, sep) + 1, Len(s)), sep)
    ELSE s

\* str.split(sep) for a one-character sep
RECURSIVE Split(_, _)
Split(s, sep) ==
    IF \E i \in 1..Len(s) : s[i] = sep
    THEN <<SubSeq(s, 1, Index(s, sep) - 1)>>
             \o Split(SubSeq(s, Index(s, sep) + 1, Len(s)), sep)
    ELSE <<s>>

AllDigits(s) == s # <<>> /\ \A i \in 1..Len(s) : s[i] \in Digits

\* the natural number a digit string denotes
RECURSIVE DigitsVal(_)
DigitsVal(s) ==
    IF s = <<>> THEN 0
    ELSE 10 * DigitsVal(SubSeq(s, 1, Len(s) - 1)) + DigitVal(s[Len(s)])

RECURSIVE Pow10(_)
Pow10(n) == IF n = 0 THEN 1 ELSE 10 * Pow10(n - 1)

\* the float m / 10^e, m without trailing zero
RECURSIVE Norm(_, _)
Norm(m, e) ==
    IF e > 0 /\ m % 10 = 0 THEN Norm(m \div 10, e - 1) ELSE [m |-> m, e |-> e]

Cero == [m |-> 0, e |-> 0]

Unsigned(s) == IF s # <<>> /\ Head(s) \in {"+", "-"} THEN Tail(s) ELSE s

\* the floats that are not finite: e = -1 marks them
Inf == [m |-> 1, e |-> 0 - 1]
MenosInf == [m |-> 0 - 1, e |-> 0 - 1]
NaN == [m |-> 0, e |-> 0 - 1]

\* s spells the word in any letter case
SinCaso(s, minus, mayus) ==
    Len(s) = Len(minus) /\ \A i \in 1..Len(s) : s[i] \in {minus[i], mayus[i]}

EsInfinito(u) ==
    SinCaso(u, <<"i", "n", "f">>, <<"I", "N", "F">>) \/ SinCaso(u, <<"i", "n", "f", "i", "n", "i", "t", "y">>, <<"I", "N", "F", "I", "N", "I", "T", "Y">>)

EsNaN(u) == SinCaso(u, <<"n", "a", "n">>, <<"N", "A", "N">>)

\* float() accepts an underscore between two digits
GuionesOk(u) ==
    \A i \in 1..Len(u) :
        u[i] = "_" => i > 1 /\ i < Len(u) /\ u[i - 1] \in Digits /\ u[i + 1] \in Digits

SinGuiones(u) == SelectSeq(u, LAMBDA c : c # "_")

\* positions of the exponent mark
PosExp(w) == {i \in 1..Len(w) : w[i] \in {"e", "E"}}

Mantisa(w) == IF PosExp(w) = {} THEN w ELSE SubSeq(w, 1, (CHOOSE i \in PosExp(w) : TRUE) - 1)

Exponente(w) == SubSeq(w, (CHOOSE i \in PosExp(w) : TRUE) + 1, Len(w))

\* digits with at most one period and at least one digit
EsMantisa(d) ==
    LET n == Replace(d, <<".">>, <<>>)
    IN  AllDigits(n) /\ Len(d) - Len(n) <= 1

\* float(s) accepts s: optional blanks, optional sign, then inf, infinity or
\* nan in any letter case, or digits with at most one period, at least one
\* digit and an optional exponent (ASCII digits and blanks only)
IsFloatLiteral(s) ==
    LET u == Unsigned(Strip(s))
        w == SinGuiones(u)
    IN  \/ EsInfinito(u)
        \/ EsNaN(u)
        \/ /\ GuionesOk(u)
           /\ Cardinality(PosExp(w)) <= 1
           /\ EsMantisa(Mantisa(w))
           /\ PosExp(w) # {} => AllDigits(Unsigned(Exponente(w)))

\* float(s) for an accepted s, within the range where a double is exact to
\* the digits written
FloatOf(s) ==
    LET t == Strip(s)
        u == Unsigned(t)
        w == SinGuiones(u)
        mant == Mantisa(w)
        d == Replace(mant, <<".">>, <<>>)
        dec == IF Len(mant) > Len(d) THEN Len(mant) - Index(mant, ".") ELSE 0
        x == IF PosExp(w) = {} THEN 0
             ELSE IF Head(Exponente(w)) = "-"
                  THEN 0 - DigitsVal(Unsigned(Exponente(w)))
                  ELSE DigitsVal(Unsigned(Exponente(w)))
        n == IF x >= dec THEN Norm(DigitsVal(d) * Pow10(x - dec), 0)
             ELSE Norm(DigitsVal(d), dec - x)
        neg == t # <<>> /\ Head(t) = "-"
    IN  IF EsInfinito(u) THEN (IF neg THEN MenosInf ELSE Inf)
        ELSE IF EsNaN(u) THEN NaN
        ELSE IF neg THEN [m |-> 0 - n.m, e |-> n.e] ELSE n

\* int(s) accepts s: optional blanks, optional sign, digits only
IsIntLiteral(s) == AllDigits(Unsigned(Strip(s)))

RECURSIVE SinCerosIzquierda(_)
SinCerosIzquierda(d) ==
    IF Len(d) > 1 /\ Head(d) = "0" THEN SinCerosIzquierda(Tail(d)) ELSE d

\* int(s) for an accepted s. A Python int has no width: it is kept as its
\* canonical decimal numeral (no leading zero, "-" before a negative one)
IntOf(s) ==
    LET t == Strip(s)
        d == SinCerosIzquierda(Unsigned(t))
    IN  IF Head(t) = "-" /\ d # <<"0">> THEN <<"-">> \o d ELSE d

\* the int 0
IntCero == <<"0">>

(***************************************************************************)
(* Python values: a str is a sequence of characters, None is None, a      *)
(* number is <<"int", digits>> or <<"float", decimal>>                     *)
(***************************************************************************)
None == <<"None">>

EsNumero(v) == Len(v) = 2 /\ v[1] \in {"int", "float"}

\* not v
Falsy(v) ==
    \/ v = None
    \/ v = <<>>
    \/ EsNumero(v) /\ \/ v[1] = "int" /\ v[2] = IntCero
                      \/ v[1] = "float" /\ v[2] = Cero

DigitChar(k) == CHOOSE c \in Digits : DigitVal(c) = k

\* str(n) of a natural number
RECURSIVE DigitosDe(_)
DigitosDe(n) ==
    IF n < 10 THEN <<DigitChar(n)>> ELSE DigitosDe(n \div 10) \o <<DigitChar(n % 10)>>

RECURSIVE Ceros(_)
Ceros(k) == IF k <= 0 THEN <<>> ELSE <<"0">> \o Ceros(k - 1)

\* repr(x) of a float written positionally (1e-4 <= |x| < 1e16, or 0, inf, nan)
StrFloat(x) ==
    LET a == IF x.m < 0 THEN 0 - x.m ELSE x.m
        signo == IF x.m < 0 THEN <<"-">> ELSE <<>>
        entero == DigitosDe(a \div Pow10(x.e))
        frac == DigitosDe(a % Pow10(x.e))
    IN  IF x = NaN THEN <<"n", "a", "n">>
        ELSE IF x.e < 0 THEN signo \o <<"i", "n", "f">>
        ELSE IF x.e = 0 THEN signo \o entero \o <<".", "0">>
        ELSE signo \o entero \o <<".">> \o Ceros(x.e - Len(frac)) \o frac

\* str(v)
Str(v) ==
    IF v = None THEN <<"N", "o", "n", "e">>
    ELSE IF EsNumero(v) THEN (IF v[1] = "int" THEN v[2] ELSE StrFloat(v[2]))
    ELSE v

(***************************************************************************)
(* limpiar_monto (procesador_imagen_v5.py, procesador_imagen_v6.py)        *)
(***************************************************************************)
\* re.sub(r'^[Ss5\$][/lI1]\s*', '', s)
SubMonedaBarra(s) ==
    IF Len(s) >= 2 /\ s[1] \in {"S", "s", "5", "$"} /\ s[2] \in {"/", "l", "I", "1"}
    THEN LStrip(SubSeq(s, 3, Len(s)))
    ELSE s

\* re.sub(r'^[Ss5]\s+', '', s)
SubMonedaEspacio(s) ==
    IF Len(s) >= 2 /\ s[1] \in {"S", "s", "5"} /\ s[2] \in Whitespace
    THEN LStrip(Tail(s))
    ELSE s

\* re.sub(r'[Ss]/\s*', '', s): every occurrence, scanning left to right
RECURSIVE SubSBarra(_)
SubSBarra(s) ==
    IF Len(s) < 2 THEN s
    ELSE IF s[1] \in {"S", "s"} /\ s[2] = "/"
         THEN SubSBarra(LStrip(SubSeq(s, 3, Len(s))))
         ELSE <<Head(s)>> \o SubSBarra(Tail(s))


\* the substitutions without those of u and U
ConfusionesSinU(s) ==
    LET c == Replace(s, <<"D">>, <<"0">>)
        d == Replace(Replace(c, <<"O">>, <<"0">>), <<"o">>, <<"0">>)
    IN  Replace(Replace(d, <<"l">>, <<"1">>), <<"I">>, <<"1">>)

\* the OCR character substitutions, v5 lines 66-72
ConfusionesOCR(s) ==
    LET a == Replace(Replace(s, <<"u", "u">>, <<"0", "0">>), <<"U", "U">>, <<"0", "0">>)
        b == Replace(Replace(a, <<"u">>, <<"0">>), <<"U">>, <<"0">>)
        c == Replace(b, <<"D">>, <<"0">>)
        d == Replace(Replace(c, <<"O">>, <<"0">>), <<"o">>, <<"0">>)
    IN  Replace(Replace(d, <<"l">>, <<"1">>), <<"I">>, <<"1">>)

\* the currency marker removal, v5 lines 76-81
QuitarMoneda(s) ==
    Replace(SubSBarra(SubMonedaEspacio(SubMonedaBarra(s))), <<" ">>, <<>>)

\* the separator handling, v5 lines 85-98
SeparadoresEuropeo(s) == Replace(Replace(s, <<".">>, <<>>), <<",">>, <<".">>)


\* limpiar_monto without its European branch: every comma is a thousands mark
SeparadoresSinEuropeo(s) == Replace(s, <<",">>, <<>>)

Separadores(s) ==
    IF Contains(s, <<",">>) /\ Contains(s, <<".">>)
    THEN IF Index(s, ",") < Index(s, ".")
         THEN Replace(s, <<",">>, <<>>)
         ELSE SeparadoresEuropeo(s)
    ELSE IF Contains(s, <<",">>)
         THEN IF Len(SplitLast(s, ",")) = 2
              THEN Replace(s, <<",">>, <<".">>)
              ELSE Replace(s, <<",">>, <<>>)
         ELSE s

\* try: return float(valor_str) / except: return 0.0
FloatOCero(s) == IF IsFloatLiteral(s) THEN FloatOf(s) ELSE Cero

limpiar_monto_v5(v) ==
    IF Falsy(v) THEN Cero
    ELSE FloatOCero(Separadores(QuitarMoneda(ConfusionesOCR(Strip(Str(v))))))

limpiar_monto_v6(v) ==
    IF Falsy(v) THEN Cero
    ELSE FloatOCero(Separadores(QuitarMoneda(ConfusionesOCR(Strip(Str(v))))))


(***************************************************************************)
(* limpiar_moneda (procesador_imagen_v3.py, procesador_imagen_v4.py)       *)
(***************************************************************************)
\* re.sub(r'^S/?I?\s*', '', s, flags=re.IGNORECASE)
SubMonedaV3(s) ==
    IF s # <<>> /\ Head(s) \in {"S", "s"}
    THEN LET a == Tail(s)
             b == IF a # <<>> /\ Head(a) = "/" THEN Tail(a) ELSE a
             c == IF b # <<>> /\ Head(b) \in {"I", "i"} THEN Tail(b) ELSE b
         IN  LStrip(c)
    ELSE s

\* re.sub(r'^\$\s*', '', s)
SubDolar(s) == IF s # <<>> /\ Head(s) = "$" THEN LStrip(Tail(s)) ELSE s

\* re.sub(r'[S$/Sl\s]', '', s)
RECURSIVE SubSimbolosV4(_)
SubSimbolosV4(s) ==
    IF s = <<>> THEN <<>>
    ELSE IF Head(s) \in {"S", "$", "/", "l"} \cup Whitespace
         THEN SubSimbolosV4(Tail(s))
         ELSE <<Head(s)>> \o SubSimbolosV4(Tail(s))

\* str.count(c) for a one-character c
Count(s, c) == Cardinality({i \in 1..Len(s) : s[i] = c})

\* ''.join(partes)
RECURSIVE JoinVacio(_)
JoinVacio(partes) ==
    IF partes = <<>> THEN <<>> ELSE Head(partes) \o JoinVacio(Tail(partes))

\* ''.join(partes[:-1]) + '.' + partes[-1] with partes = s.split('.')
UltimoPuntoDecimal(s) ==
    LET partes == Split(s, ".")
    IN  JoinVacio(SubSeq(partes, 1, Len(partes) - 1)) \o <<".">> \o partes[Len(partes)]

\* the separator handling of limpiar_moneda, v3 lines 107-118, v4 lines 84-94
SeparadoresMoneda(s) ==
    IF Count(s, ".") = 2 THEN UltimoPuntoDecimal(s)
    ELSE IF Contains(s, <<",">>) /\ Contains(s, <<".">>) THEN Replace(s, <<",">>, <<>>)
    ELSE IF Contains(s, <<",">>) /\ ~Contains(s, <<".">>) THEN Replace(s, <<",">>, <<>>)
    ELSE s

limpiar_moneda_v3(v) ==
    IF Falsy(v) THEN Cero
    ELSE LET a == SubDolar(SubMonedaV3(Strip(Str(v))))
             b == Replace(a, <<" ">>, <<>>)
             c == Replace(Replace(b, <<"O">>, <<"0">>), <<"o">>, <<"0">>)
         IN  FloatOCero(SeparadoresMoneda(c))

limpiar_moneda_v4(v) ==
    IF Falsy(v) THEN Cero
    ELSE LET a == SubSimbolosV4(Str(v))
             b == Replace(Replace(a, <<"O">>, <<"0">>), <<"o">>, <<"0">>)
             c == Replace(Replace(b, <<"D">>, <<"0">>), <<"d">>, <<"0">>)
             d == Replace(Replace(c, <<"I">>, <<"1">>), <<"l">>, <<"1">>)
             e == Replace(d, <<"B">>, <<"8">>)
         IN  FloatOCero(SeparadoresMoneda(e))

\* the values handed to limpiar_monto and limpiar_moneda
MaxTokenLen == 3
MontoAlphabet == {"S", "/", " ", "4", "2", "0", ",", "."}
OCRAlphabet == {"O", "o", "D", "U", "u", "I", "l", "4"}
MuestrasMonto ==
    { <<"S", "/", " ", "4", ",", "2", "0", "0", ".", "0", "0">>, <<"4", ".", "2", "0", "0", ",", "0", "0">>, <<"g", "a", "r", "b", "a", "g", "e">>, <<"4", "2", "0", "0", ",", "5", "0">>, <<"4", ",", "2", "0", "0">>, <<"5", ".", "2", "0", "0", ".", "0", "0">>,
      <<"S", "/", " ", "4", ",", "2", "u", "u", ".", "U", "U">>, <<"5", "/", " ", "4", ",", "2", "0", "0", ".", "0", "0">>, <<"5", "1", " ", "4", ",", "2", "0", "0", ".", "0", "0">>, <<"5", " ", "4", ",", "2", "0", "0", ".", "0", "0">>,
      <<"n", "a", "n">>, <<"i", "n", "f">>, <<"-", "i", "n", "f">>, <<"I", "n", "f", "i", "n", "i", "t", "y">>, <<"1", "e", "3">>, <<"1", "_", "0">>, <<"-", "5">>, <<"N", "o", "n", "e">>,
      <<"5", "1", ".", "0", "0">>, <<"5", "1", "0", "0", ".", "0", "0">>, <<"5", "1", "0", ".", "5", "0">>, <<"4", ",", "2", "0", "0", ".", "0", "0">>, <<"4", "2", ".", "0", "0">>, <<"1", "5", ".", "0", "0">>, <<"1", ",", "0", "5", "1", ".", "0", "0">> }
Tokens ==
    MuestrasMonto
        \cup UNION { [1..k -> MontoAlphabet] : k \in 0..MaxTokenLen }
        \cup UNION { [1..k -> OCRAlphabet] : k \in 0..MaxTokenLen }
Numeros ==
    { <<"int", <<"0">>>>, <<"int", <<"4", "2">>>>, <<"float", Cero>>,
      <<"float", [m |-> 42005, e |-> 1]>>, <<"float", NaN>> }
Entradas == Tokens \cup Numeros \cup {None}

InitMonto ==
    /\ valor_str \in Entradas
    /\ monto = <<>>

LimpiarMontoV5 ==
    /\ monto = <<>>
    /\ monto' = <<"v5", limpiar_monto_v5(valor_str)>>
    /\ UNCHANGED <<valor_str, apiVars, extVars, otrosVars>>

LimpiarMontoV6 ==
    /\ monto = <<>>
    /\ monto' = <<"v6", limpiar_monto_v6(valor_str)>>
    /\ UNCHANGED <<valor_str, apiVars, extVars, otrosVars>>

LimpiarMonedaV3 ==
    /\ monto = <<>>
    /\ monto' = <<"v3", limpiar_moneda_v3(valor_str)>>
    /\ UNCHANGED <<valor_str, apiVars, extVars, otrosVars>>

LimpiarMonedaV4 ==
    /\ monto = <<>>
    /\ monto' = <<"v4", limpiar_moneda_v4(valor_str)>>
    /\ UNCHANGED <<valor_str, apiVars, extVars, otrosVars>>

NextMonto == LimpiarMontoV5 \/ LimpiarMontoV6 \/ LimpiarMonedaV3 \/ LimpiarMonedaV4

(***************************************************************************)
(* POST /procesar (api.py)                                                 *)
(***************************************************************************)
MaxRequests == 2
Reqs == 1..MaxRequests

NoPath == <<>>

UpperLetters == <<"A", "B", "C", "D", "E", "F", "G", "H", "I", "J", "K", "L", "M",
                  "N", "O", "P", "Q", "R", "S", "T", "U", "V", "W", "X", "Y", "Z">>
LowerLetters == <<"a", "b", "c", "d", "e", "f", "g", "h", "i", "j", "k", "l", "m",
                  "n", "o", "p", "q", "r", "s", "t", "u", "v", "w", "x", "y", "z">>

\* str.lower()
Lower(s) ==
    [i \in 1..Len(s) |->
        IF \E k \in 1..26 : UpperLetters[k] = s[i]
        THEN LowerLetters[CHOOSE k \in 1..26 : UpperLetters[k] = s[i]]
        ELSE s[i]]

ExtPdf == <<"p", "d", "f">>
ExtXml == <<"x", "m", "l">>
ExtPng == <<"p", "n", "g">>
ExtJpg == <<"j", "p", "g">>
ExtJpeg == <<"j", "p", "e", "g">>
ExtImagen == {ExtPng, ExtJpg, ExtJpeg}

\* the list of api.py:28 with one more extension let through
ExtSoportadasConTxt == {ExtPdf, ExtXml, ExtPng, ExtJpg, ExtJpeg, <<"t", "x", "t">>}

\* api.py:28
ExtSoportadas == {ExtPdf, ExtXml, ExtPng, ExtJpg, ExtJpeg}

\* api.py:25-26: file.filename.lower().split(".")[-1]
Extension(filename) == SplitLast(Lower(filename), ".")

\* the uploads: UploadFile.filename is Optional[str]
Filenames ==
    { None,
      <<"f", ".", "P", "D", "F">>,
      <<"f", ".", "x", "m", "l">>,
      <<"f", ".", "p", "n", "g">>,
      <<"f", ".", "J", "p", "g">>,
      <<"f", ".", "j", "p", "e", "g">>,
      <<"f", ".", "x", "m", "l", ".", "t", "x", "t">>,
      <<>> }
Contenidos == {"ok", "bad"}
\* the content matters only to an extractor, so only for a supported
\* extension; unreadable content is tried on one document extractor and on
\* the image extractor, which the three image extensions share
Uploads ==
    { u \in [filename : Filenames, content : Contenidos] :
        (u.filename = None \/ Extension(u.filename) \notin {ExtXml, ExtPng}) => u.content = "ok" }
NoUpload == [filename |-> <<>>, content |-> "none"]

MsgNoSoportado == "Formato de archivo no soportado. Use PDF, XML o Imágenes."
MsgErrorInterno == "Error interno del servidor"


(***************************************************************************)
(* catalogos_sunat.py                                                      *)
(***************************************************************************)
\* str.upper()
Upper(s) ==
    [i \in 1..Len(s) |->
        IF \E k \in 1..26 : LowerLetters[k] = s[i]
        THEN UpperLetters[CHOOSE k \in 1..26 : LowerLetters[k] = s[i]]
        ELSE s[i]]

\* code -> label pairs of Catalogo 03
CATALOGO_03_UNIDAD_MEDIDA ==
    { <<<<"N", "I", "U">>, <<"U", "N", "I", "D", "A", "D">>>>,
      <<<<"Z", "Z">>, <<"U", "N", "I", "D", "A", "D">>>>,
      <<<<"U", "M">>, <<"M", "I", "L", "L", "O", "N", " ", "D", "E", " ", "U", "N", "I", "D", "A", "D", "E", "S">>>>,
      <<<<"K", "G", "M">>, <<"K", "I", "L", "O", "G", "R", "A", "M", "O">>>>,
      <<<<"L", "T", "R">>, <<"L", "I", "T", "R", "O">>>>,
      <<<<"M", "T", "R">>, <<"M", "E", "T", "R", "O">>>>,
      <<<<"M", "T", "K">>, <<"M", "E", "T", "R", "O", " ", "C", "U", "A", "D", "R", "A", "D", "O">>>>,
      <<<<"M", "T", "Q">>, <<"M", "E", "T", "R", "O", " ", "C", "U", "B", "I", "C", "O">>>>,
      <<<<"G", "R", "M">>, <<"G", "R", "A", "M", "O">>>>,
      <<<<"T", "N", "E">>, <<"T", "O", "N", "E", "L", "A", "D", "A">>>>,
      <<<<"B", "X">>, <<"C", "A", "J", "A">>>>,
      <<<<"P", "K">>, <<"P", "A", "Q", "U", "E", "T", "E">>>>,
      <<<<"D", "Z", "N">>, <<"D", "O", "C", "E", "N", "A">>>>,
      <<<<"G", "L", "L">>, <<"G", "A", "L", "O", "N">>>>,
      <<<<"O", "N", "Z">>, <<"O", "N", "Z", "A">>>>,
      <<<<"L", "B", "R">>, <<"L", "I", "B", "R", "A">>>>,
      <<<<"S", "E", "T">>, <<"J", "U", "E", "G", "O">>>>,
      <<<<"R", "O", "L">>, <<"R", "O", "L", "L", "O">>>>,
      <<<<"B", "G">>, <<"B", "O", "L", "S", "A">>>>,
      <<<<"P", "R">>, <<"P", "A", "R">>>>,
      <<<<"M", "L", "T">>, <<"M", "I", "L", "I", "L", "I", "T", "R", "O">>>>,
      <<<<"C", "M", "T">>, <<"C", "E", "N", "T", "I", "M", "E", "T", "R", "O">>>>,
      <<<<"I", "N", "H">>, <<"P", "U", "L", "G", "A", "D", "A">>>>,
      <<<<"F", "O", "T">>, <<"P", "I", "E">>>>,
      <<<<"Y", "R", "D">>, <<"Y", "A", "R", "D", "A">>>>,
      <<<<"G", "L", "I">>, <<"G", "A", "L", "O", "N", " ", "I", "M", "P", "E", "R", "I", "A", "L">>>>,
      <<<<"D", "A", "Y">>, <<"D", "I", "A">>>>,
      <<<<"H", "U", "R">>, <<"H", "O", "R", "A">>>>,
      <<<<"M", "O", "N">>, <<"M", "E", "S">>>>,
      <<<<"A", "N", "N">>, <<"A", "Ñ", "O">>>>,
      <<<<"M", "I", "N">>, <<"M", "I", "N", "U", "T", "O">>>>,
      <<<<"S", "E", "C">>, <<"S", "E", "G", "U", "N", "D", "O">>>> }

CATALOGO_02_MONEDA ==
    { <<<<"P", "E", "N">>, <<"S", "O", "L", "E", "S">>>>,
      <<<<"U", "S", "D">>, <<"D", "O", "L", "A", "R", "E", "S", " ", "A", "M", "E", "R", "I", "C", "A", "N", "O", "S">>>>,
      <<<<"E", "U", "R">>, <<"E", "U", "R", "O", "S">>>> }

\* dict.get(key, default)
DictGet(dict, key, default) ==
    IF \E p \in dict : p[1] = key
    THEN (CHOOSE p \in dict : p[1] = key)[2]
    ELSE default


\* codigo_xml is None (attribute absent) or a string
convertir_unidad_medida(codigo_xml) ==
    IF codigo_xml = None \/ codigo_xml = <<>> THEN <<"U", "N", "I", "D", "A", "D">>
    ELSE DictGet(CATALOGO_03_UNIDAD_MEDIDA, Strip(Upper(codigo_xml)), Strip(Upper(codigo_xml)))

convertir_moneda(codigo_xml) ==
    IF codigo_xml = None \/ codigo_xml = <<>> THEN <<"S", "O", "L", "E", "S">>
    ELSE DictGet(CATALOGO_02_MONEDA, Strip(Upper(codigo_xml)), Strip(Upper(codigo_xml)))


(***************************************************************************)
(* procesador_xml.py                                                       *)
(*                                                                         *)
(* An element is absent (find returns None) or present with its text; an   *)
(* element with no text has text None in ElementTree, <<>> here.           *)
(***************************************************************************)
NoNode == [present |-> FALSE, text |-> <<>>]
El(t) == [present |-> TRUE, text |-> t]

\* obtener_valor(nodo_raiz, ruta, tipo): padre says whether nodo_raiz is an
\* element (None.find raises, and the except swallows it)
obtener_valor(padre, nodo, tipo) ==
    IF padre /\ nodo.present /\ nodo.text # <<>>
       /\ (tipo = "float" => IsFloatLiteral(nodo.text))
    THEN IF tipo = "float" THEN FloatOf(nodo.text) ELSE Strip(nodo.text)
    ELSE IF tipo = "float" THEN Cero ELSE <<>>


\* the IGV loop when no TaxTotal is taken for IGV
IgvDeSinImpuesto(tax_totals, igv) == igv

\* lines 78-85: the last TaxTotal whose first TaxSubtotal has scheme 1000
RECURSIVE IgvDe(_, _)
IgvDe(tax_totals, igv) ==
    IF tax_totals = <<>> THEN igv
    ELSE LET tax == Head(tax_totals)
         IN  IgvDe(Tail(tax_totals),
                   IF tax.subtotals # <<>>
                      /\ obtener_valor(TRUE, Head(tax.subtotals).scheme, "str") = <<"1", "0", "0", "0">>
                   THEN obtener_valor(TRUE, tax.amount, "float")
                   ELSE igv)

\* re.sub(r'\s+', ' ', s)
RECURSIVE ColapsarEspacios(_)
ColapsarEspacios(s) ==
    IF s = <<>> THEN s
    ELSE IF Head(s) \in Whitespace
         THEN <<" ">> \o ColapsarEspacios(LStrip(s))
         ELSE <<Head(s)>> \o ColapsarEspacios(Tail(s))

\* re.sub(r'^SON:\s*', '', s, flags=re.IGNORECASE)
QuitarSon(s) ==
    IF Len(s) >= 4 /\ Upper(SubSeq(s, 1, 4)) = <<"S", "O", "N", ":">>
    THEN LStrip(SubSeq(s, 5, Len(s)))
    ELSE s

\* lines 96-105: the first Note with text containing "SON:"
RECURSIVE DescripcionImporte(_)
DescripcionImporte(notas) ==
    IF notas = <<>> THEN <<>>
    ELSE IF Head(notas).text # <<>> /\ Contains(Head(notas).text, <<"S", "O", "N", ":">>)
         THEN Strip(ColapsarEspacios(QuitarSon(Strip(Head(notas).text))))
         ELSE DescripcionImporte(Tail(notas))

\* " ".join(partes)
RECURSIVE Join(_)
Join(partes) ==
    IF partes = <<>> THEN <<>>
    ELSE IF Len(partes) = 1 THEN Head(partes)
         ELSE Head(partes) \o <<" ">> \o Join(Tail(partes))

\* lines 108-112; line 110 reads nota.text without testing it for None
RECURSIVE Observaciones(_)
Observaciones(notas) ==
    IF notas = <<>> THEN <<>>
    ELSE IF ~Contains(Head(notas).text, <<"S", "O", "N", ":">>)
         THEN <<Strip(Head(notas).text)>> \o Observaciones(Tail(notas))
         ELSE Observaciones(Tail(notas))

NotaSinTexto(notas) == \E i \in 1..Len(notas) : notas[i].text = <<>>

\* re.search(r'\d+', s).group(), <<>> when there is no match
RECURSIVE PrimerosDigitos(_)
PrimerosDigitos(s) ==
    IF s = <<>> THEN <<>>
    ELSE IF Head(s) \in Digits
         THEN LET resto == Tail(s)
                  n == CHOOSE k \in 0..Len(resto) :
                          /\ \A j \in 1..k : resto[j] \in Digits
                          /\ (k < Len(resto) => resto[k + 1] \notin Digits)
              IN  SubSeq(s, 1, n + 1)
         ELSE PrimerosDigitos(Tail(s))

EsFormaPago(term) == Contains(obtener_valor(TRUE, term.id, "str"), <<"F", "o", "r", "m", "a", "P", "a", "g", "o">>)
EsCredito(term) == EsFormaPago(term) /\ Contains(obtener_valor(TRUE, term.means, "str"), <<"C", "r", "e", "d", "i", "t", "o">>)
EsCuota(term) ==
    /\ EsFormaPago(term)
    /\ ~Contains(obtener_valor(TRUE, term.means, "str"), <<"C", "r", "e", "d", "i", "t", "o">>)
    /\ Contains(obtener_valor(TRUE, term.means, "str"), <<"C", "u", "o", "t", "a">>)

\* lines 131-137: yyyy-mm-dd to dd/mm/yyyy; the unpacking needs three parts
FechaCuotaOk(term) ==
    LET f == obtener_valor(TRUE, term.due, "str")
    IN  f = <<>> \/ Len(Split(f, "-")) = 3

FechaCuota(term) ==
    LET f == obtener_valor(TRUE, term.due, "str")
        p == Split(f, "-")
    IN  IF f = <<>> THEN <<>> ELSE p[3] \o <<"/">> \o p[2] \o <<"/">> \o p[1]

\* line 140
NumeroCuota(term, lista_cuotas) ==
    LET d == PrimerosDigitos(obtener_valor(TRUE, term.means, "str"))
    IN  IF d # <<>> THEN DigitsVal(d) ELSE Len(lista_cuotas) + 1


\* the installments numbered by their place in the list, whatever the
\* PaymentMeansID says
RECURSIVE CuotasPorPosicion(_, _)
CuotasPorPosicion(payment_terms, lista_cuotas) ==
    IF payment_terms = <<>> THEN lista_cuotas
    ELSE LET term == Head(payment_terms)
         IN  CuotasPorPosicion(Tail(payment_terms),
                    IF EsCuota(term)
                    THEN Append(lista_cuotas,
                                [numero |-> Len(lista_cuotas) + 1,
                                 fechaVencimiento |-> FechaCuota(term),
                                 monto |-> obtener_valor(TRUE, term.amount, "float")])
                    ELSE lista_cuotas)

\* lines 116-146, the installments
RECURSIVE Cuotas(_, _)
Cuotas(payment_terms, lista_cuotas) ==
    IF payment_terms = <<>> THEN lista_cuotas
    ELSE LET term == Head(payment_terms)
         IN  Cuotas(Tail(payment_terms),
                    IF EsCuota(term)
                    THEN Append(lista_cuotas,
                                [numero |-> NumeroCuota(term, lista_cuotas),
                                 fechaVencimiento |-> FechaCuota(term),
                                 monto |-> obtener_valor(TRUE, term.amount, "float")])
                    ELSE lista_cuotas)


\* the pending amount taken from the first credit term instead of the last
RECURSIVE PendienteDelPrimero(_, _)
PendienteDelPrimero(payment_terms, pendiente_pago) ==
    IF payment_terms = <<>> THEN pendiente_pago
    ELSE IF EsCredito(Head(payment_terms))
         THEN obtener_valor(TRUE, Head(payment_terms).amount, "float")
         ELSE PendienteDelPrimero(Tail(payment_terms), pendiente_pago)

\* lines 117-128, forma de pago and the pending amount
RECURSIVE Pendiente(_, _)
Pendiente(payment_terms, pendiente_pago) ==
    IF payment_terms = <<>> THEN pendiente_pago
    ELSE Pendiente(Tail(payment_terms),
                   IF EsCredito(Head(payment_terms))
                   THEN obtener_valor(TRUE, Head(payment_terms).amount, "float")
                   ELSE pendiente_pago)

FormaPago(payment_terms) ==
    IF \E i \in 1..Len(payment_terms) : EsCredito(payment_terms[i])
    THEN <<"C", "r", "é", "d", "i", "t", "o">> ELSE <<"C", "o", "n", "t", "a", "d", "o">>

\* lines 152-166, one invoice line (its InvoicedQuantity is present)
LineaFactura(line) ==
    [cantidad |-> obtener_valor(TRUE, line.qty, "float"),
     unidadMedida |-> convertir_unidad_medida(line.unitCode),
     descripcion |-> obtener_valor(TRUE, line.desc, "str"),
     valorUnitario |-> obtener_valor(TRUE, line.price, "float")]


\* the first statement of the try block (lines 39-166) that raises, "" if none
ExcepcionXml(archivo) ==
    LET doc == archivo.doc
    IN  IF ~archivo.bien_formado THEN "ParseError: not well-formed"
        ELSE IF ~IsIntLiteral(obtener_valor(doc.emisor, doc.emisor_id, "str"))
        THEN "ValueError: invalid literal for int() (rucEmisor)"
        ELSE IF ~doc.emisor
        THEN "AttributeError: 'NoneType' object has no attribute 'find'"
        ELSE IF ~IsIntLiteral(obtener_valor(doc.receptor, doc.receptor_id, "str"))
        THEN "ValueError: invalid literal for int() (rucReceptor)"
        ELSE IF NotaSinTexto(doc.notas)
        THEN "TypeError: argument of type 'NoneType' is not iterable"
        ELSE IF \E i \in 1..Len(doc.payment_terms) :
                    EsCuota(doc.payment_terms[i]) /\ ~FechaCuotaOk(doc.payment_terms[i])
        THEN "ValueError: not enough values to unpack"
        ELSE IF \E i \in 1..Len(doc.lineas) : ~doc.lineas[i].qty.present
        THEN "AttributeError: 'NoneType' object has no attribute 'get'"
        ELSE ""

\* lines 169-209, the factura of a document no statement raised on
FacturaXml(doc) ==
    LET dir == doc.emisor_dir
        calle == obtener_valor(dir, doc.calle, "str")
        dist == obtener_valor(dir, doc.distrito, "str")
        prov == obtener_valor(dir, doc.ciudad, "str")
        dep == obtener_valor(dir, doc.departamento, "str")
        fecha_emision == obtener_valor(TRUE, doc.fecha, "str")
        direccion_maestra == obtener_valor(doc.receptor, doc.receptor_dir, "str")
        subtotal_venta == obtener_valor(TRUE, doc.line_ext, "float")
        lista_cuotas == Cuotas(doc.payment_terms, <<>>)
    IN  [razonSocialEmisor |-> obtener_valor(doc.emisor, doc.emisor_nombre, "str"),
         direccionEmisor |->
             Strip(calle \o <<" ">> \o dist \o <<" ", "-", " ">> \o prov \o <<" ", "-", " ">> \o dep),
         departamento |-> dep,
         provincia |-> prov,
         distrito |-> dist,
         rucEmisor |-> IntOf(obtener_valor(doc.emisor, doc.emisor_id, "str")),
         numeroFactura |-> obtener_valor(TRUE, doc.id, "str"),
         fechaEmision |-> fecha_emision,
         fechaContable |-> fecha_emision,
         razonSocialReceptor |-> obtener_valor(doc.receptor, doc.receptor_nombre, "str"),
         rucReceptor |-> IntOf(obtener_valor(doc.receptor, doc.receptor_id, "str")),
         direccionReceptorFactura |-> direccion_maestra,
         direccionCliente |-> direccion_maestra,
         tipoMoneda |-> convertir_moneda(obtener_valor(TRUE, doc.moneda, "str")),
         observacion |-> Join(Observaciones(doc.notas)),
         formaPago |-> FormaPago(doc.payment_terms),
         lineaFactura |-> [i \in 1..Len(doc.lineas) |-> LineaFactura(doc.lineas[i])],
         ventaGratuita |-> Cero,
         descripcionImporteTotal |-> DescripcionImporte(doc.notas),
         subtotalVenta |-> subtotal_venta,
         anticipo |-> Cero,
         descuento |-> obtener_valor(TRUE, doc.allowance, "float"),
         valorVenta |-> subtotal_venta,
         isc |-> Cero,
         igv |-> IgvDe(doc.tax_totals, Cero),
         otrosCargos |-> obtener_valor(TRUE, doc.charge, "float"),
         otrosTributos |-> Cero,
         montoRedondeo |-> Cero,
         importeTotal |-> obtener_valor(TRUE, doc.payable, "float"),
         montoNetoPendientePago |-> Pendiente(doc.payment_terms, Cero),
         totalCuota |-> Len(lista_cuotas),
         cuotas |-> lista_cuotas]

MsgNoExiste == "El archivo no existe"


\* procesar_factura_xml keeping a stub factura beside the message of an exception
procesar_factura_xml_parcial(ex, archivo) ==
    IF ~ex THEN [validacion |-> <<MsgNoExiste>>]
    ELSE IF ExcepcionXml(archivo) # ""
         THEN [factura |-> [rucEmisor |-> IntCero],
               validacion |-> <<"Error procesando XML: " \o ExcepcionXml(archivo)>>]
         ELSE [factura |-> FacturaXml(archivo.doc), validacion |-> <<>>]

\* existe: os.path.exists(ruta_archivo); archivo: what ET.parse finds there
procesar_factura_xml(ex, archivo) ==
    IF ~ex THEN [validacion |-> <<MsgNoExiste>>]
    ELSE IF ExcepcionXml(archivo) # ""
         THEN [validacion |-> <<"Error procesando XML: " \o ExcepcionXml(archivo)>>]
         ELSE [factura |-> FacturaXml(archivo.doc), validacion |-> <<>>]


(***************************************************************************)
(* The XML files handed to procesar_factura_xml: a complete SUNAT invoice  *)
(* (the end-to-end scenario of the specification) with up to MaxEdits      *)
(* elements removed, emptied, rewritten or added                           *)
(***************************************************************************)
MaxEdits == 1

AltTexts == { <<"0", "7", "5", "0", ".", "1", "0">>, <<"N", "/", "A">> }

TerminoCredito ==
    [id |-> El(<<"F", "o", "r", "m", "a", "P", "a", "g", "o">>), means |-> El(<<"C", "r", "e", "d", "i", "t", "o">>),
     amount |-> El(<<"4", "9", "5", "6", ".", "0", "0">>), due |-> NoNode]
TerminoCuota(n, fecha) ==
    [id |-> El(<<"F", "o", "r", "m", "a", "P", "a", "g", "o">>), means |-> El(<<"C", "u", "o", "t", "a", "0", "0">> \o n),
     amount |-> El(<<"2", "4", "7", "8", ".", "0", "0">>), due |-> fecha]

DocCompleto(ruc, folio, importe) ==
    [emisor |-> TRUE,
     emisor_id |-> El(ruc),
     emisor_nombre |-> El(<<"A", "C", "M", "E", " ", "S", "A", "C">>),
     emisor_dir |-> TRUE,
     calle |-> El(<<"A", "V", " ", "1">>),
     distrito |-> El(<<"A", "T", "E">>),
     ciudad |-> El(<<"L", "I", "M", "A">>),
     departamento |-> El(<<"L", "I", "M", "A">>),
     id |-> El(folio),
     fecha |-> El(<<"2", "0", "2", "4", "-", "0", "1", "-", "3", "1">>),
     moneda |-> El(<<"P", "E", "N">>),
     receptor |-> TRUE,
     receptor_id |-> El(<<"2", "0", "5", "1", "2", "3", "4", "5", "6", "7", "8">>),
     receptor_nombre |-> El(<<"B", "E", "T", "A", " ", "S", "A">>),
     receptor_dir |-> El(<<"J", "R", " ", "2">>),
     payable |-> El(importe),
     line_ext |-> El(<<"4", "2", "0", "0", ".", "0", "0">>),
     allowance |-> NoNode,
     charge |-> NoNode,
     tax_totals |-> << [amount |-> El(<<"7", "5", "6", ".", "0", "0">>),
                        subtotals |-> << [amount |-> El(<<"7", "5", "6", ".", "0", "0">>),
                                          scheme |-> El(<<"1", "0", "0", "0">>)] >>] >>,
     notas |-> << El(<<"S", "O", "N", ":", " ", " ", "C", "U", "A", "T", "R", "O", " ", "M", "I", "L">>) >>,
     payment_terms |-> << TerminoCredito,
                          TerminoCuota(<<"1">>, El(<<"2", "0", "2", "4", "-", "0", "2", "-", "2", "9">>)) >>,
     lineas |-> << [qty |-> El(<<"2", ".", "0", "0">>), unitCode |-> <<"n", "i", "u">>,
                    desc |-> El(<<"T", "O", "N", "E", "R">>), price |-> El(<<"2", "1", "0", "0", ".", "0", "0">>)] >>]

DocsBase ==
    { DocCompleto(<<"2", "0", "1", "0", "0", "0", "7", "0", "9", "7", "0">>, <<"F", "0", "0", "1", "-", "1", "2", "3">>, <<"4", "9", "5", "6", ".", "0", "0">>),
      DocCompleto(<<" ", "1", "0", "4", "5", "6", "7", "8", "9", "0", "1", "2", " ">>, <<" ", "E", "0", "0", "1", "-", "7">>, <<"0", ".", "1", "0">>),
      DocCompleto(<<"2", "0", "1", "0", "0", "0", "7", "0", "9", "7", "0">>, <<" ", "E", "0", "0", "1", "-", "7">>, <<"1", "2", "0", "0", ".", "5">>) }

\* the elements read once, by name
CamposNodo ==
    {"emisor_id", "emisor_nombre", "calle", "distrito", "ciudad", "departamento",
     "id", "fecha", "moneda", "receptor_id", "receptor_nombre", "receptor_dir",
     "payable", "line_ext", "allowance", "charge"}
CamposParte == {"emisor", "emisor_dir", "receptor"}
ValoresNodo == {NoNode, El(<<>>)} \cup { El(t) : t \in AltTexts }

NotasExtra == { El(<<>>), El(<<" ", "O", "B", "S", " ", "1", " ">>) }
TerminosExtra ==
    { TerminoCuota(<<"2">>, NoNode),
      TerminoCuota(<<"2">>, El(<<"2", "0", "2", "4", "/", "0", "3", "/", "3", "1">>)),
      TerminoCuota(<<"2">>, El(<<"2", "0", "2", "4", "-", "0", "3", "-", "3", "1">>)),
      [id |-> El(<<"F", "o", "r", "m", "a", "P", "a", "g", "o">>), means |-> El(<<"C", "u", "o", "t", "a">>),
       amount |-> NoNode, due |-> El(<<"2", "0", "2", "4", "-", "0", "3", "-", "3", "1">>)],
      [id |-> El(<<"F", "o", "r", "m", "a", "P", "a", "g", "o">>), means |-> El(<<"C", "u", "o", "t", "a", "0", "1", "2", "/", "3">>),
       amount |-> El(<<"1", "2", "3", "9", ".", "0", "0">>), due |-> El(<<"2", "0", "2", "4", "-", "0", "4", "-", "3", "0">>)],
      [id |-> El(<<"F", "o", "r", "m", "a", "P", "a", "g", "o">>), means |-> El(<<"C", "r", "e", "d", "i", "t", "o", " ", "C", "u", "o", "t", "a", "0", "0", "3">>),
       amount |-> El(<<"1", "0", "0", "0", ".", "0", "0">>), due |-> El(<<"2", "0", "2", "4", "-", "0", "5", "-", "3", "1">>)] }
LineasExtra ==
    { [qty |-> NoNode, unitCode |-> None, desc |-> El(<<"F", "L", "E", "T", "E">>), price |-> El(<<"1", "0", ".", "0", "0">>)],
      [qty |-> El(<<>>), unitCode |-> None, desc |-> NoNode, price |-> NoNode],
      [qty |-> El(<<"1">>), unitCode |-> <<"X", "Y", "Z", " ">>, desc |-> El(<<" ", "C", "A", "J", "A", " ">>), price |-> El(<<"N", "/", "A">>)] }
TaxTotalsExtra ==
    { [amount |-> El(<<"8", "0", "0", ".", "0", "0">>),
       subtotals |-> << [amount |-> El(<<"4", "4", ".", "0", "0">>), scheme |-> El(<<"2", "0", "0", "0">>)],
                        [amount |-> El(<<"7", "5", "6", ".", "0", "0">>), scheme |-> El(<<"1", "0", "0", "0">>)] >>],
      [amount |-> El(<<"8", "0", "0", ".", "0", "0">>),
       subtotals |-> << [amount |-> El(<<"7", "5", "6", ".", "0", "0">>), scheme |-> El(<<"1", "0", "0", "0">>)],
                        [amount |-> El(<<"4", "4", ".", "0", "0">>), scheme |-> El(<<"2", "0", "0", "0">>)] >>],
      [amount |-> El(<<"1", "2", ".", "0", "0">>), subtotals |-> <<>>] }

ArchivoMalFormado == [bien_formado |-> FALSE, doc |-> DocCompleto(<<"0">>, <<"0">>, <<"0">>)]


(***************************************************************************)
(* procesador_pdf.py                                                       *)
(*                                                                         *)
(* The text of the first page is seen through the matches of the regular   *)
(* expressions applied to it: each re.search is None or its captured group *)
(***************************************************************************)
\* limpiar_moneda: float(valor.replace('S/', '').replace(',', '').strip())
limpiar_moneda_ok(valor) ==
    valor = None \/ valor = <<>>
        \/ IsFloatLiteral(Strip(Replace(Replace(valor, <<"S", "/">>, <<>>), <<",">>, <<>>)))

limpiar_moneda(valor) ==
    IF valor = None \/ valor = <<>> THEN Cero
    ELSE FloatOf(Strip(Replace(Replace(valor, <<"S", "/">>, <<>>), <<",">>, <<>>)))

\* the labels limpiar_texto removes, in the order of the list (lines 16-21)
Etiquetas ==
    << <<"S", "e", "ñ", "o", "r", "(", "e", "s", ")", " ", ":">>, <<"D", "i", "r", "e", "c", "c", "i", "ó", "n", " ", "d", "e", "l", " ", "R", "e", "c", "e", "p", "t", "o", "r", " ", "d", "e", " ", "l", "a", " ", "f", "a", "c", "t", "u", "r", "a", " ", ":">>,
       <<"D", "i", "r", "e", "c", "c", "i", "ó", "n", " ", "d", "e", "l", " ", "C", "l", "i", "e", "n", "t", "e", " ", ":">>, <<"O", "b", "s", "e", "r", "v", "a", "c", "i", "ó", "n", " ", ":">>, <<"S", "O", "N", ":">>,
       <<"T", "i", "p", "o", " ", "d", "e", " ", "M", "o", "n", "e", "d", "a", " ", ":", " ", "S", "O", "L", "E", "S">>, <<"T", "i", "p", "o", " ", "d", "e", " ", "M", "o", "n", "e", "d", "a", " ", ":">>, <<"R", "U", "C", ":">>, <<"R", "U", "C", " ", ":">> >>

RECURSIVE QuitarEtiquetas(_, _)
QuitarEtiquetas(texto, etiquetas) ==
    IF etiquetas = <<>> THEN texto
    ELSE QuitarEtiquetas(Replace(texto, Head(etiquetas), <<>>), Tail(etiquetas))

limpiar_texto(valor) ==
    IF valor = None \/ valor = <<>> THEN <<>>
    ELSE Strip(ColapsarEspacios(
             QuitarEtiquetas(Replace(valor, <<"\n">>, <<" ">>), Etiquetas)))

\* str.split(sep)[0] for a non-empty sep occurring in s
RECURSIVE AntesDe(_, _)
AntesDe(s, sep) ==
    IF SubSeq(s, 1, Len(sep)) = sep THEN <<>>
    ELSE <<Head(s)>> \o AntesDe(Tail(s), sep)

\* cortar_basura, lines 26-41; corte is corte_index when both the location
\* pattern and a street keyword after it match in texto, and -1 otherwise
cortar_basura(texto, texto_referencia, corte) ==
    IF texto = <<>> THEN <<>>
    ELSE IF texto_referencia # <<>> /\ Contains(texto, Prefijo(texto_referencia, 10))
         THEN Strip(AntesDe(texto, Prefijo(texto_referencia, 10)))
         ELSE IF corte >= 0 THEN Strip(Prefijo(texto, corte)) ELSE texto

\* lines 149-153: the line before the RUC line looks like a name
PareceNombre(candidato) ==
    /\ candidato # <<>>
    /\ ~Contains(candidato, <<"F", "A", "C", "T", "U", "R", "A">>)
    /\ ~Contains(candidato, <<"B", "O", "L", "E", "T", "A">>)
    /\ \A p \in { <<"C", "A", "L", ".">>, <<"A", "V", ".">>, <<"J", "R", ".">>, <<"M", "Z", "A", ".">>, <<"C", "A", "L", "L", "E">> } :
           Upper(Prefijo(candidato, Len(p))) # p
    /\ Len(candidato) > 5

\* lines 139-161
RazonEmisor(t) ==
    IF t.linea_antes_ruc # None /\ PareceNombre(Strip(t.linea_antes_ruc))
    THEN Strip(t.linea_antes_ruc)
    ELSE IF t.match_nombre # None THEN Strip(t.match_nombre) ELSE <<>>

\* the labels of the twelve amounts, lines 101-112
EtiquetasMonto ==
    {"ventaGratuita", "subtotalVenta", "anticipo", "descuento", "valorVenta", "isc",
     "igv", "otrosCargos", "otrosTributos", "montoRedondeo", "importeTotal",
     "montoNetoPendientePago"}

\* the first statement of the try block (lines 52-206) that raises, "" if none
ExcepcionPdf(archivo) ==
    IF ~archivo.abre THEN "PDFSyntaxError: No /Root object"
    ELSE IF archivo.paginas = 0 THEN "IndexError: list index out of range"
    ELSE IF ~archivo.hay_texto THEN "TypeError: expected string or bytes-like object"
    ELSE IF \/ \E c \in 1..Len(archivo.texto.cuotas_raw) :
                   ~limpiar_moneda_ok(archivo.texto.cuotas_raw[c][3])
            \/ \E l \in 1..Len(archivo.texto.lineas_raw) :
                   ~limpiar_moneda_ok(archivo.texto.lineas_raw[l][3])
            \/ \E m \in EtiquetasMonto : ~limpiar_moneda_ok(archivo.texto.montos[m])
    THEN "ValueError: could not convert string to float"
    ELSE ""

\* lines 164-206
FacturaPdf(t) ==
    LET geo == IF t.geo # None THEN [i \in 1..3 |-> Strip(t.geo[i])]
               ELSE << <<"A", "T", "E">>, <<"L", "I", "M", "A">>, <<"L", "I", "M", "A">> >>
        pieza_fiscal == limpiar_texto(t.match_fiscal)
        pieza_entrega == cortar_basura(limpiar_texto(t.match_entrega), pieza_fiscal,
                                       t.corte_index)
        direccion_maestra ==
            IF pieza_fiscal # <<>> /\ pieza_entrega # <<>>
            THEN pieza_fiscal \o <<" ", ":", " ">> \o pieza_entrega
            ELSE IF pieza_fiscal # <<>> THEN pieza_fiscal ELSE pieza_entrega
        texto_obs == limpiar_texto(t.obs_blob)
        fecha == IF t.fecha # None THEN t.fecha ELSE <<>>
        lista_cuotas ==
            [c \in 1..Len(t.cuotas_raw) |->
                [numero |-> IntOf(t.cuotas_raw[c][1]),
                 fechaVencimiento |-> t.cuotas_raw[c][2],
                 monto |-> limpiar_moneda(t.cuotas_raw[c][3])]]
    IN  [razonSocialEmisor |-> RazonEmisor(t),
         direccionEmisor |-> limpiar_texto(t.dir_emisor_blob),
         departamento |-> geo[3],
         provincia |-> geo[2],
         distrito |-> geo[1],
         rucEmisor |-> IF t.ruc_emisor # None THEN IntOf(t.ruc_emisor) ELSE IntCero,
         numeroFactura |-> IF t.folio # None THEN t.folio ELSE <<>>,
         fechaEmision |-> fecha,
         razonSocialReceptor |-> limpiar_texto(t.nombre_blob),
         rucReceptor |-> IF t.ruc_receptor # None THEN IntOf(t.ruc_receptor) ELSE IntCero,
         direccionReceptorFactura |-> direccion_maestra,
         direccionCliente |-> direccion_maestra,
         fechaContable |-> fecha,
         tipoMoneda |-> <<"S", "O", "L", "E", "S">>,
         observacion |->
             IF Contains(texto_obs, <<"C", "T", "A", ".", "C", "T", "E">>)
                /\ ~Contains(texto_obs, <<"O", "P", "E", "R", "A", "C", "I", "Ó", "N", " ", "S", "U", "J", "E", "T", "A">>)
             THEN <<"O", "P", "E", "R", "A", "C", "I", "Ó", "N", " ", "S", "U", "J", "E", "T", "A", " ", "A", "L", " ", "S", "P", "O", "D", " ">> \o texto_obs
             ELSE texto_obs,
         formaPago |-> <<"C", "r", "é", "d", "i", "t", "o">>,
         lineaFactura |->
             [l \in 1..Len(t.lineas_raw) |->
                 [cantidad |-> FloatOf(t.lineas_raw[l][1]),
                  unidadMedida |-> convertir_unidad_medida(<<"N", "I", "U">>),
                  descripcion |->
                      limpiar_texto(t.lineas_raw[l][2] \o <<" ">> \o t.lineas_raw[l][4]),
                  valorUnitario |-> limpiar_moneda(t.lineas_raw[l][3])]],
         ventaGratuita |-> limpiar_moneda(t.montos["ventaGratuita"]),
         descripcionImporteTotal |->
             IF t.desc_son # None THEN limpiar_texto(t.desc_son) \o <<" ", "S", "O", "L", "E", "S">> ELSE <<>>,
         subtotalVenta |-> limpiar_moneda(t.montos["subtotalVenta"]),
         anticipo |-> limpiar_moneda(t.montos["anticipo"]),
         descuento |-> limpiar_moneda(t.montos["descuento"]),
         valorVenta |-> limpiar_moneda(t.montos["valorVenta"]),
         isc |-> limpiar_moneda(t.montos["isc"]),
         igv |-> limpiar_moneda(t.montos["igv"]),
         otrosCargos |-> limpiar_moneda(t.montos["otrosCargos"]),
         otrosTributos |-> limpiar_moneda(t.montos["otrosTributos"]),
         montoRedondeo |-> limpiar_moneda(t.montos["montoRedondeo"]),
         importeTotal |-> limpiar_moneda(t.montos["importeTotal"]),
         montoNetoPendientePago |-> limpiar_moneda(t.montos["montoNetoPendientePago"]),
         totalCuota |-> Len(lista_cuotas),
         cuotas |-> lista_cuotas]


\* procesar_factura_pdf without the os.path.exists test of lines 48-49:
\* pdfplumber.open raises on the missing path
procesar_factura_pdf_sin_existe(ex, archivo) ==
    IF ~ex THEN [validacion |-> <<"Error procesando PDF: FileNotFoundError">>]
    ELSE IF ExcepcionPdf(archivo) # ""
         THEN [validacion |-> <<"Error procesando PDF: " \o ExcepcionPdf(archivo)>>]
         ELSE [factura |-> FacturaPdf(archivo.texto), validacion |-> <<>>]

\* existe: os.path.exists(ruta_archivo); archivo: what pdfplumber finds there
procesar_factura_pdf(ex, archivo) ==
    IF ~ex THEN [validacion |-> <<MsgNoExiste>>]
    ELSE IF ExcepcionPdf(archivo) # ""
         THEN [validacion |-> <<"Error procesando PDF: " \o ExcepcionPdf(archivo)>>]
         ELSE [factura |-> FacturaPdf(archivo.texto), validacion |-> <<>>]


(***************************************************************************)
(* The PDF files handed to procesar_factura_pdf                            *)
(***************************************************************************)
TextoCompleto ==
    [ruc_emisor |-> <<"1", "0", "4", "5", "6", "7", "8", "9", "0", "1", "2">>,
     ruc_receptor |-> <<"2", "0", "5", "1", "2", "3", "4", "5", "6", "7", "8">>,
     folio |-> <<"E", "0", "0", "1", "-", "7">>,
     fecha |-> <<"3", "1", "/", "0", "1", "/", "2", "0", "2", "4">>,
     geo |-> << <<"A", "T", "E", " ">>, <<"L", "I", "M", "A">>, <<"L", "I", "M", "A">> >>,
     dir_emisor_blob |-> <<"A", "V", " ", "1", "\n", "A", "T", "E">>,
     match_fiscal |-> <<"R", "U", "C", ":", " ", "J", "R", " ", "2", " ", "L", "I", "M", "A">>,
     match_entrega |-> <<"J", "R", " ", "9", " ", " ", "C", "A", "L", "L", "A", "O">>,
     corte_index |-> 0 - 1,
     nombre_blob |-> <<"S", "e", "ñ", "o", "r", "(", "e", "s", ")", " ", ":", " ", "B", "E", "T", "A", " ", "S", "A">>,
     obs_blob |-> <<"C", "T", "A", ".", "C", "T", "E", " ", "1">>,
     desc_son |-> <<"C", "U", "A", "T", "R", "O", " ", "M", "I", "L">>,
     linea_antes_ruc |-> <<"P", "E", "R", "E", "Z", " ", "J", "U", "A", "N">>,
     match_nombre |-> None,
     montos |-> [m \in EtiquetasMonto |->
                    IF m = "importeTotal" THEN <<"4", ",", "9", "5", "6", ".", "0", "0">>
                    ELSE IF m = "igv" THEN <<"7", "5", "6", ".", "0", "0">>
                    ELSE IF m \in {"valorVenta", "subtotalVenta"} THEN <<"4", ",", "2", "0", "0", ".", "0", "0">>
                    ELSE <<"0", ".", "0", "0">>],
     cuotas_raw |-> << << <<"1">>, <<"2", "9", "/", "0", "2", "/", "2", "0", "2", "4">>, <<"2", ",", "4", "7", "8", ".", "0", "0">> >> >>,
     lineas_raw |-> << << <<"2", ".", "0", "0">>, <<"T", "O", "N", "E", "R">>, <<"2", ",", "1", "0", "0", ".", "0", "0">>, <<>> >> >>]

CamposPdf ==
    {"ruc_emisor", "ruc_receptor", "folio", "fecha", "geo", "dir_emisor_blob",
     "match_fiscal", "match_entrega", "nombre_blob", "obs_blob", "desc_son",
     "linea_antes_ruc"}
MontosAlt == { None, <<",", ".", "0", "0">>, <<"1", ",", "0", ",", "0", ".", "5", "0">> }

\* abre: pdfplumber.open succeeds; hay_texto: extract_text() returns a string
PdfIlegible == [abre |-> FALSE, paginas |-> 0, hay_texto |-> FALSE, texto |-> TextoCompleto]
PdfsBase ==
    { PdfIlegible,
      [abre |-> TRUE, paginas |-> 0, hay_texto |-> FALSE, texto |-> TextoCompleto],
      [abre |-> TRUE, paginas |-> 1, hay_texto |-> FALSE, texto |-> TextoCompleto],
      [abre |-> TRUE, paginas |-> 1, hay_texto |-> TRUE, texto |-> TextoCompleto] }

(***************************************************************************)
(* The extractors called on a path                                         *)
(***************************************************************************)
InitExt ==
    /\ motor \in {"xml", "pdf"}
    /\ existe \in BOOLEAN
    /\ xml \in IF motor = "xml"
               THEN {ArchivoMalFormado} \cup { [bien_formado |-> TRUE, doc |-> d] : d \in DocsBase }
               ELSE {ArchivoMalFormado}
    /\ pdf \in IF motor = "pdf" THEN PdfsBase ELSE {PdfIlegible}
    /\ ediciones = 0
    /\ parseos = 0
    /\ resultado = <<>>

EditableXml ==
    /\ motor = "xml" /\ existe /\ xml.bien_formado
    /\ resultado = <<>> /\ ediciones < MaxEdits

Editado ==
    /\ ediciones' = ediciones + 1
    /\ UNCHANGED <<motor, existe, parseos, resultado, apiVars, montoVars, otrosVars>>

EditarNodo(campo, v) ==
    /\ EditableXml
    /\ xml.doc[campo] # v
    /\ xml' = [xml EXCEPT !.doc[campo] = v]
    /\ Editado /\ UNCHANGED pdf

QuitarParte(campo) ==
    /\ EditableXml
    /\ xml' = [xml EXCEPT !.doc[campo] = FALSE]
    /\ Editado /\ UNCHANGED pdf

\* an absent cbc:Note is not among the elements findall returns
EditarNota(i, v) ==
    /\ EditableXml
    /\ i \in 1..Len(xml.doc.notas)
    /\ xml' = [xml EXCEPT !.doc.notas =
                  IF v.present THEN [@ EXCEPT ![i] = v]
                  ELSE SubSeq(@, 1, i - 1) \o SubSeq(@, i + 1, Len(@))]
    /\ Editado /\ UNCHANGED pdf

AgregarNota(v) ==
    /\ EditableXml
    /\ xml' = [xml EXCEPT !.doc.notas = Append(@, v)]
    /\ Editado /\ UNCHANGED pdf

EditarTermino(i, campo, v) ==
    /\ EditableXml
    /\ i \in 1..Len(xml.doc.payment_terms)
    /\ xml.doc.payment_terms[i][campo] # v
    /\ xml' = [xml EXCEPT !.doc.payment_terms[i][campo] = v]
    /\ Editado /\ UNCHANGED pdf

AgregarTermino(t) ==
    /\ EditableXml
    /\ xml' = [xml EXCEPT !.doc.payment_terms = Append(@, t)]
    /\ Editado /\ UNCHANGED pdf

EditarLinea(i, campo, v) ==
    /\ EditableXml
    /\ i \in 1..Len(xml.doc.lineas)
    /\ xml.doc.lineas[i][campo] # v
    /\ xml' = [xml EXCEPT !.doc.lineas[i][campo] = v]
    /\ Editado /\ UNCHANGED pdf

AgregarLinea(l) ==
    /\ EditableXml
    /\ xml' = [xml EXCEPT !.doc.lineas = Append(@, l)]
    /\ Editado /\ UNCHANGED pdf

\* a TaxTotal put before (al_inicio) or after the ones of the document
AgregarTaxTotal(tt, al_inicio) ==
    /\ EditableXml
    /\ xml' = [xml EXCEPT !.doc.tax_totals = IF al_inicio THEN <<tt>> \o @ ELSE Append(@, tt)]
    /\ Editado /\ UNCHANGED pdf

QuitarTaxTotals ==
    /\ EditableXml
    /\ xml' = [xml EXCEPT !.doc.tax_totals = <<>>]
    /\ Editado /\ UNCHANGED pdf

\* the document carries this TaxTotal and no other
ReemplazarTaxTotals(tt) ==
    /\ EditableXml
    /\ xml' = [xml EXCEPT !.doc.tax_totals = <<tt>>]
    /\ Editado /\ UNCHANGED pdf

ProcesarXml ==
    /\ motor = "xml" /\ resultado = <<>>
    /\ resultado' = <<procesar_factura_xml(existe, xml)>>
    /\ parseos' = IF existe THEN parseos + 1 ELSE parseos
    /\ UNCHANGED <<motor, existe, xml, pdf, ediciones, apiVars, montoVars, otrosVars>>

EditablePdf ==
    /\ motor = "pdf" /\ existe /\ pdf.hay_texto
    /\ resultado = <<>> /\ ediciones < MaxEdits

QuitarCampoPdf(campo) ==
    /\ EditablePdf
    /\ pdf' = [pdf EXCEPT !.texto[campo] = None]
    /\ Editado /\ UNCHANGED xml

CambiarMontoPdf(m, v) ==
    /\ EditablePdf
    /\ pdf' = [pdf EXCEPT !.texto.montos[m] = v]
    /\ Editado /\ UNCHANGED xml

QuitarCuotasPdf ==
    /\ EditablePdf
    /\ pdf' = [pdf EXCEPT !.texto.cuotas_raw = <<>>, !.texto.lineas_raw = <<>>]
    /\ Editado /\ UNCHANGED xml

ProcesarPdf ==
    /\ motor = "pdf" /\ resultado = <<>>
    /\ resultado' = <<procesar_factura_pdf(existe, pdf)>>
    /\ parseos' = IF existe THEN parseos + 1 ELSE parseos
    /\ UNCHANGED <<motor, existe, xml, pdf, ediciones, apiVars, montoVars, otrosVars>>

NextExt ==
    \/ \E campo \in CamposNodo, v \in ValoresNodo : EditarNodo(campo, v)
    \/ \E campo \in CamposParte : QuitarParte(campo)
    \/ \E i \in 1..Len(xml.doc.notas), v \in ValoresNodo : EditarNota(i, v)
    \/ \E v \in NotasExtra : AgregarNota(v)
    \/ \E i \in 1..Len(xml.doc.payment_terms), campo \in {"id", "means", "amount", "due"},
          v \in ValoresNodo :
           EditarTermino(i, campo, v)
    \/ \E t \in TerminosExtra : AgregarTermino(t)
    \/ \E i \in 1..Len(xml.doc.lineas), campo \in {"qty", "desc", "price"}, v \in ValoresNodo :
           EditarLinea(i, campo, v)
    \/ \E l \in LineasExtra : AgregarLinea(l)
    \/ \E tt \in TaxTotalsExtra, al_inicio \in BOOLEAN : AgregarTaxTotal(tt, al_inicio)
    \/ QuitarTaxTotals
    \/ \E tt \in TaxTotalsExtra : ReemplazarTaxTotals(tt)
    \/ ProcesarXml
    \/ \E campo \in CamposPdf : QuitarCampoPdf(campo)
    \/ \E m \in EtiquetasMonto, v \in MontosAlt : CambiarMontoPdf(m, v)
    \/ QuitarCuotasPdf
    \/ ProcesarPdf


(***************************************************************************)
(* procesar_documento (api.py:17-65) and what it calls                     *)
(***************************************************************************)
\* what the extractors find in the temp file of an upload
ArchivoXml(content) ==
    IF content = "ok"
    THEN [bien_formado |-> TRUE, doc |-> DocCompleto(<<"2", "0", "1", "0", "0", "0", "7", "0", "9", "7", "0">>, <<"F", "0", "0", "1", "-", "1", "2", "3">>, <<"4", "9", "5", "6", ".", "0", "0">>)]
    ELSE ArchivoMalFormado

ArchivoPdf(content) ==
    IF content = "ok"
    THEN [abre |-> TRUE, paginas |-> 1, hay_texto |-> TRUE, texto |-> TextoCompleto]
    ELSE PdfIlegible

\* procesador_imagen.procesar_factura_img on a readable image: the record
\* built at lines 400-426 (its fields come from OCR text heuristics)
procesar_factura_img(ruta) == [factura |-> [imagen |-> ruta], validacion |-> <<>>]

Retorno(v) == [tipo |-> "return", valor |-> v]
Excepcion(e) == [tipo |-> "raise", valor |-> e]
\* api.py:56-57
ErrorInterno(e) == Retorno([validacion |-> <<MsgErrorInterno \o ": " \o e>>])

InitApi ==
    /\ upload = [r \in Reqs |-> NoUpload]
    /\ pc = [r \in Reqs |-> "idle"]
    /\ nombre_temporal = [r \in Reqs |-> NoPath]
    /\ respuesta = [r \in Reqs |-> <<>>]
    /\ eventos = [r \in Reqs |-> <<>>]
    /\ disco = {}
    /\ llamadas = <<>>
    /\ modelo_doctr = "None"
    /\ cargas = 0
    /\ corriendo = 0
    /\ uuids = 0


\* an event loop that starts a handler while another one is still running
LoopCompartido == TRUE

\* the event loop runs one handler at a time: procesar_documento has no await
LoopLibre == corriendo = 0


\* api.py:32 with one name shared by every request of an extension
NombreTemporalFijo(extension) == <<1, extension>>

\* api.py:32, a fresh uuid4 name
NombreTemporal(extension) == <<uuids + 1, extension>>

\* api.py:25-32: the request is picked up; its filename is read outside the try
ValidarExtension(r, u) ==
    /\ pc[r] = "idle"
    /\ LoopLibre
    /\ \A q \in Reqs : q < r => pc[q] # "idle"
    /\ upload' = [upload EXCEPT ![r] = u]
    /\ IF u.filename = None
       THEN /\ respuesta' = [respuesta EXCEPT ![r] =
                                Excepcion("AttributeError: 'NoneType' object has no attribute 'lower'")]
            /\ pc' = [pc EXCEPT ![r] = "done"]
            /\ eventos' = [eventos EXCEPT ![r] = Append(@, "raised")]
            /\ UNCHANGED <<nombre_temporal, corriendo, uuids>>
       ELSE IF Extension(u.filename) \notin ExtSoportadas
       THEN /\ respuesta' = [respuesta EXCEPT ![r] = Retorno([validacion |-> <<MsgNoSoportado>>])]
            /\ pc' = [pc EXCEPT ![r] = "done"]
            /\ eventos' = [eventos EXCEPT ![r] = Append(@, "responded")]
            /\ UNCHANGED <<nombre_temporal, corriendo, uuids>>
       ELSE /\ nombre_temporal' = [nombre_temporal EXCEPT ![r] = NombreTemporal(Extension(u.filename))]
            /\ uuids' = uuids + 1
            /\ pc' = [pc EXCEPT ![r] = "guardar"]
            /\ corriendo' = r
            /\ UNCHANGED <<respuesta, eventos>>
    /\ UNCHANGED <<disco, llamadas, modelo_doctr, cargas, extVars, montoVars, otrosVars>>

\* api.py:35-36: open(nombre_temporal, "wb") and shutil.copyfileobj
GuardarTemporal(r, salida) ==
    /\ pc[r] = "guardar"
    /\ corriendo = r
    /\ CASE salida = "ok" ->
              /\ disco' = disco \cup {nombre_temporal[r]}
              /\ eventos' = [eventos EXCEPT ![r] = Append(@, "written")]
              /\ pc' = [pc EXCEPT ![r] = "enrutar"]
              /\ UNCHANGED respuesta
         [] salida = "open_falla" ->
              /\ respuesta' = [respuesta EXCEPT ![r] = ErrorInterno("OSError: open")]
              /\ pc' = [pc EXCEPT ![r] = "finally"]
              /\ UNCHANGED <<disco, eventos>>
         [] salida = "copia_falla" ->
              /\ disco' = disco \cup {nombre_temporal[r]}
              /\ eventos' = [eventos EXCEPT ![r] = Append(@, "created")]
              /\ respuesta' = [respuesta EXCEPT ![r] = ErrorInterno("OSError: write")]
              /\ pc' = [pc EXCEPT ![r] = "finally"]
    /\ UNCHANGED <<upload, nombre_temporal, llamadas, modelo_doctr, cargas, corriendo, uuids, extVars, montoVars, otrosVars>>


\* the router of api.py:41-48 with its two document branches exchanged
MotorIntercambiado(extension) ==
    IF extension = ExtPdf THEN "procesar_factura_xml"
    ELSE IF extension = ExtXml THEN "procesar_factura_pdf"
    ELSE IF extension \in ExtImagen THEN "procesar_factura_img"
    ELSE "ninguno"

\* the extractor api.py:41-52 selects for an extension
Motor(extension) ==
    IF extension = ExtPdf THEN "procesar_factura_pdf"
    ELSE IF extension = ExtXml THEN "procesar_factura_xml"
    ELSE IF extension \in ExtImagen THEN "procesar_factura_img"
    ELSE "ninguno"

Llamada(r, ret) ==
    [motor |-> Motor(nombre_temporal[r][2]), ruta |-> nombre_temporal[r],
     req |-> r, retorno |-> ret]

\* api.py:41-48 and 54: the PDF or XML extractor, which catches its own errors
EnrutarDocumento(r) ==
    /\ pc[r] = "enrutar"
    /\ corriendo = r
    /\ Motor(nombre_temporal[r][2]) \in {"procesar_factura_pdf", "procesar_factura_xml"}
    /\ \E archivo \in {IF Motor(nombre_temporal[r][2]) = "procesar_factura_pdf"
                        THEN ArchivoPdf(upload[r].content)
                        ELSE ArchivoXml(upload[r].content)} :
         \E ret \in {IF Motor(nombre_temporal[r][2]) = "procesar_factura_pdf"
                     THEN procesar_factura_pdf(nombre_temporal[r] \in disco, archivo)
                     ELSE procesar_factura_xml(nombre_temporal[r] \in disco, archivo)} :
              /\ llamadas' = Append(llamadas, Llamada(r, <<ret>>))
              /\ respuesta' = [respuesta EXCEPT ![r] = Retorno(ret)]
    /\ eventos' = [eventos EXCEPT ![r] = Append(@, "invoked")]
    /\ pc' = [pc EXCEPT ![r] = "finally"]
    /\ UNCHANGED <<upload, nombre_temporal, disco, modelo_doctr, cargas, corriendo, uuids, extVars, montoVars, otrosVars>>


\* procesar_factura_img with an obtener_modelo_doctr that builds a model on
\* every call
EnrutarImagenSiempreCarga(r, carga_ok) ==
    /\ pc[r] = "enrutar"
    /\ corriendo = r
    /\ Motor(nombre_temporal[r][2]) = "procesar_factura_img"
    /\ cargas' = cargas + 1
    /\ modelo_doctr' = IF carga_ok THEN "model" ELSE "None"
    /\ IF ~carga_ok
       THEN /\ llamadas' = Append(llamadas, Llamada(r, <<>>))
            /\ respuesta' = [respuesta EXCEPT ![r] = ErrorInterno("OSError: model weights")]
       ELSE IF upload[r].content = "ok" /\ nombre_temporal[r] \in disco
       THEN /\ llamadas' = Append(llamadas, Llamada(r, <<procesar_factura_img(nombre_temporal[r])>>))
            /\ respuesta' = [respuesta EXCEPT ![r] = Retorno(procesar_factura_img(nombre_temporal[r]))]
       ELSE /\ llamadas' = Append(llamadas, Llamada(r, <<>>))
            /\ respuesta' = [respuesta EXCEPT ![r] = ErrorInterno("OSError: cannot read image")]
    /\ eventos' = [eventos EXCEPT ![r] = Append(@, "invoked")]
    /\ pc' = [pc EXCEPT ![r] = "finally"]
    /\ UNCHANGED <<upload, nombre_temporal, disco, corriendo, uuids, extVars, montoVars, otrosVars>>

\* api.py:50-52: procesar_factura_img, which catches nothing.
\* obtener_modelo_doctr (procesador_imagen.py:20-25) builds the model on the
\* first call; carga_ok says whether ocr_predictor(pretrained=True) returns
EnrutarImagen(r, carga_ok) ==
    /\ pc[r] = "enrutar"
    /\ corriendo = r
    /\ Motor(nombre_temporal[r][2]) = "procesar_factura_img"
    /\ IF modelo_doctr = "None"
       THEN /\ cargas' = cargas + 1
            /\ modelo_doctr' = IF carga_ok THEN "model" ELSE "None"
       ELSE /\ carga_ok
            /\ UNCHANGED <<cargas, modelo_doctr>>
    /\ IF ~carga_ok
       THEN /\ llamadas' = Append(llamadas, Llamada(r, <<>>))
            /\ respuesta' = [respuesta EXCEPT ![r] = ErrorInterno("OSError: model weights")]
       ELSE IF upload[r].content = "ok" /\ nombre_temporal[r] \in disco
       THEN /\ llamadas' = Append(llamadas, Llamada(r, <<procesar_factura_img(nombre_temporal[r])>>))
            /\ respuesta' = [respuesta EXCEPT ![r] = Retorno(procesar_factura_img(nombre_temporal[r]))]
       ELSE /\ llamadas' = Append(llamadas, Llamada(r, <<>>))
            /\ respuesta' = [respuesta EXCEPT ![r] = ErrorInterno("OSError: cannot read image")]
    /\ eventos' = [eventos EXCEPT ![r] = Append(@, "invoked")]
    /\ pc' = [pc EXCEPT ![r] = "finally"]
    /\ UNCHANGED <<upload, nombre_temporal, disco, corriendo, uuids, extVars, montoVars, otrosVars>>


\* api.py without its finally block: the response is delivered and the
\* temp file is left where it is
LimpiezaSinBorrar(r, borra_ok) ==
    /\ pc[r] = "finally"
    /\ corriendo = r
    /\ borra_ok
    /\ eventos' = [eventos EXCEPT ![r] = Append(@, "responded")]
    /\ pc' = [pc EXCEPT ![r] = "done"]
    /\ corriendo' = 0
    /\ UNCHANGED <<upload, nombre_temporal, respuesta, disco, llamadas, modelo_doctr, cargas, uuids, extVars, montoVars, otrosVars>>

\* api.py:59-65, then the value of the return statement is delivered;
\* borra_ok says whether os.remove succeeds (its failure is swallowed)
Limpieza(r, borra_ok) ==
    /\ pc[r] = "finally"
    /\ corriendo = r
    /\ IF nombre_temporal[r] \in disco
       THEN IF borra_ok
            THEN /\ disco' = disco \ {nombre_temporal[r]}
                 /\ eventos' = [eventos EXCEPT ![r] = @ \o <<"removed", "responded">>]
            ELSE /\ disco' = disco
                 /\ eventos' = [eventos EXCEPT ![r] = @ \o <<"remove_failed", "responded">>]
       ELSE /\ borra_ok
            /\ disco' = disco
            /\ eventos' = [eventos EXCEPT ![r] = Append(@, "responded")]
    /\ pc' = [pc EXCEPT ![r] = "done"]
    /\ corriendo' = 0
    /\ UNCHANGED <<upload, nombre_temporal, respuesta, llamadas, modelo_doctr, cargas, uuids, extVars, montoVars, otrosVars>>

NextApi ==
    \/ \E r \in Reqs, u \in Uploads : ValidarExtension(r, u)
    \/ \E r \in Reqs, salida \in {"ok", "open_falla", "copia_falla"} : GuardarTemporal(r, salida)
    \/ \E r \in Reqs : EnrutarDocumento(r)
    \/ \E r \in Reqs, carga_ok \in BOOLEAN : EnrutarImagen(r, carga_ok)
    \/ \E r \in Reqs, borra_ok \in BOOLEAN : Limpieza(r, borra_ok)

(***************************************************************************)
(* Specifications: one per part of the program; the variables of the other *)
(* parts stay at rest                                                      *)
(***************************************************************************)

(***************************************************************************)
(* catalogos_sunat.py called on its own                                    *)
(***************************************************************************)
\* lines 195-200
TiposRuc ==
    { <<<<"1", "0">>, "PERSONA NATURAL">>, <<<<"1", "5">>, "SECTOR PUBLICO">>,
      <<<<"1", "7">>, "SECTOR PUBLICO">>, <<<<"2", "0">>, "PERSONA JURIDICA">> }

\* the classification without the public-sector prefixes
validar_ruc_sin_publico(ruc) ==
    IF Falsy(ruc) \/ Len(Str(ruc)) # 11
    THEN [valido |-> FALSE, tipo |-> "INVALIDO", mensaje |-> "RUC debe tener 11 dígitos"]
    ELSE LET ruc_str == Str(ruc)
             tipo == DictGet({p \in TiposRuc : p[2] # "SECTOR PUBLICO"}, SubSeq(ruc_str, 1, 2), "DESCONOCIDO")
         IN  IF ~IsIntLiteral(ruc_str)
             THEN [excepcion |-> "ValueError"]
             ELSE [valido |-> tipo # "DESCONOCIDO",
                   tipo |-> tipo,
                   ruc |-> IntOf(ruc_str),
                   mensaje |-> IF tipo # "DESCONOCIDO" THEN "RUC válido - " \o tipo
                               ELSE "Prefijo de RUC no reconocido"]

\* ruc is None, a str or an int; int(ruc_str) at line 207 raises ValueError
\* when ruc_str is not an integer literal
validar_ruc(ruc) ==
    IF Falsy(ruc) \/ Len(Str(ruc)) # 11
    THEN [valido |-> FALSE, tipo |-> "INVALIDO", mensaje |-> "RUC debe tener 11 dígitos"]
    ELSE LET ruc_str == Str(ruc)
             tipo == DictGet(TiposRuc, SubSeq(ruc_str, 1, 2), "DESCONOCIDO")
         IN  IF ~IsIntLiteral(ruc_str)
             THEN [excepcion |-> "ValueError"]
             ELSE [valido |-> tipo # "DESCONOCIDO",
                   tipo |-> tipo,
                   ruc |-> IntOf(ruc_str),
                   mensaje |-> IF tipo # "DESCONOCIDO" THEN "RUC válido - " \o tipo
                               ELSE "Prefijo de RUC no reconocido"]

\* the codes handed to convertir_unidad_medida
MaxCodigoLen == 2
CodigoAlphabet == {"N", "I", "U", "k", " "}
Codigos ==
    { p[1] : p \in CATALOGO_03_UNIDAD_MEDIDA }
        \cup { None, <<"k", "g">>, <<"X", "Y", "Z">>, <<"n", "i", "u">>, <<" ", "N", "I", "U", " ">>, <<"C", "a", "j", "a">>, <<"X", "-", "1">> }
        \cup UNION { [1..k -> CodigoAlphabet] : k \in 0..MaxCodigoLen }

\* the values handed to validar_ruc
ColaRuc == <<"1", "0", "0", "0", "7", "0", "9", "7", "0">>
Rucs ==
    { <<a, b>> \o ColaRuc : a \in Digits, b \in Digits }
        \cup { None, <<>>, <<"2", "0", "1", "0", "0", "0", "7", "0", "9", "7">>, <<"2", "0", "1", "0", "0", "0", "7", "0", "9", "7", "0", "1">>, <<"2", "0", "a", "b", "c", "d", "e", "f", "g", "h", "i">>, <<" ", "2", "0", "1", "0", "0", "0", "7", "0", "9", "7">>,
               <<"int", <<"2", "0", "1", "0", "0", "0", "7", "0", "9", "7", "0">>>>, <<"int", <<"0">>>>, <<"int", <<"9", "9">>>> }

InitCat == devuelto = <<>>

ConvertirUnidadMedida ==
    /\ devuelto = <<>>
    /\ \E codigo_xml \in Codigos :
           devuelto' = <<"convertir_unidad_medida", codigo_xml, convertir_unidad_medida(codigo_xml)>>
    /\ UNCHANGED <<apiVars, extVars, montoVars, totVars, textoVars>>

ValidarRuc ==
    /\ devuelto = <<>>
    /\ \E ruc \in Rucs : devuelto' = <<"validar_ruc", ruc, validar_ruc(ruc)>>
    /\ UNCHANGED <<apiVars, extVars, montoVars, totVars, textoVars>>

NextCat == ConvertirUnidadMedida \/ ValidarRuc

(***************************************************************************)
(* Arithmetic on floats, exact on the decimals used here                   *)
(***************************************************************************)
Dec(m, e) == Norm(m, e)

Escala(x, e) == x.m * Pow10(e - x.e)

MaxExp(a, b) == IF a.e > b.e THEN a.e ELSE b.e

Suma(a, b) == Norm(Escala(a, MaxExp(a, b)) + Escala(b, MaxExp(a, b)), MaxExp(a, b))

Resta(a, b) == Norm(Escala(a, MaxExp(a, b)) - Escala(b, MaxExp(a, b)), MaxExp(a, b))

Por(a, b) == Norm(a.m * b.m, a.e + b.e)

Menor(a, b) == Escala(a, MaxExp(a, b)) < Escala(b, MaxExp(a, b))

Mayor(a, b) == Menor(b, a)

Abs(x) == [m |-> IF x.m < 0 THEN 0 - x.m ELSE x.m, e |-> x.e]

\* int(x) of a float x >= 0
Entero(x) == x.m \div Pow10(x.e)

\* round(x, 2) of a float x >= 0: to the nearest cent, ties to even
Round2(x) ==
    IF x.e <= 2 THEN x
    ELSE LET p == Pow10(x.e - 2)
             q == x.m \div p
             r == x.m % p
         IN  IF 2 * r > p \/ (2 * r = p /\ q % 2 = 1) THEN Norm(q + 1, 2) ELSE Norm(q, 2)

\* s.endswith(t)
EndsWith(s, t) == Len(t) <= Len(s) /\ SubSeq(s, Len(s) - Len(t) + 1, Len(s)) = t

(***************************************************************************)
(* corregir_monto_ocr (procesador_imagen_v5.py:106-146)                    *)
(*                                                                         *)
(* monto is a float whose str() is positional (below 1e16, and 1e-4 or     *)
(* more when it is not 0); monto_referencia is None or <<"float", r>>      *)
(***************************************************************************)
StartsWith(s, t) == Len(t) <= Len(s) /\ SubSeq(s, 1, Len(t)) = t

\* line 116 (monto_ocr is the parameter monto)
MontoStr(monto_ocr) == IF monto_ocr.e = 0 THEN DigitosDe(monto_ocr.m) ELSE StrFloat(monto_ocr)

corregir_monto_ocr(monto_ocr, monto_referencia, tolerancia) ==
    LET monto_str == MontoStr(monto_ocr)
        ref == monto_referencia[2]
        con_referencia == monto_referencia # None /\ Mayor(ref, Cero)
        monto_sin_primero == FloatOf(SubSeq(monto_str, 2, Len(monto_str)))
        monto_sin_dos == FloatOf(SubSeq(monto_str, 3, Len(monto_str)))
        Cerca(x) == Menor(Abs(Resta(x, ref)), Por(tolerancia, ref))
        mucho_mayor == con_referencia /\ Mayor(monto_ocr, Por(ref, Dec(3, 0)))
    IN  IF ~Mayor(monto_ocr, Cero) THEN monto_ocr
        ELSE IF mucho_mayor /\ Len(monto_str) > 1 /\ Cerca(monto_sin_primero)
        THEN monto_sin_primero
        ELSE IF mucho_mayor /\ Len(monto_str) > 2 /\ Cerca(monto_sin_dos)
        THEN monto_sin_dos
        ELSE IF StartsWith(monto_str, <<"5", "1">>) /\ Len(monto_str) > 4
        THEN (IF Menor(monto_sin_dos, Dec(100000, 0)) THEN monto_sin_dos ELSE monto_ocr)
        ELSE IF StartsWith(monto_str, <<"5">>) /\ Len(monto_str) > 3
        THEN (IF Menor(monto_sin_primero, Dec(100000, 0)) THEN monto_sin_primero ELSE monto_ocr)
        ELSE monto_ocr

(***************************************************************************)
(* Section 4 (TOTALES) of procesar_factura_img, procesador_imagen_v5.py    *)
(***************************************************************************)
\* lines 746-770: the totals read from a compact line of amounts, applied to
\* t = [valor_venta, igv, importe_total]
LineaCompacta(t, montos_limpios) ==
    LET sig == SelectSeq(montos_limpios, LAMBDA m : Mayor(m, Dec(100, 0)) \/ m = Cero)
        max_valor == CHOOSE v \in {sig[i] : i \in 1..Len(sig)} :
                         \A i \in 1..Len(sig) : ~Menor(v, sig[i])
        igv_esperado == Por(max_valor, Dec(18, 2))
        cerca == {i \in 1..Len(montos_limpios) :
                     /\ Mayor(montos_limpios[i], Cero)
                     /\ Menor(Abs(Resta(montos_limpios[i], igv_esperado)), Por(igv_esperado, Dec(15, 2)))}
        hallado == IF cerca = {} THEN Cero
                   ELSE montos_limpios[CHOOSE i \in cerca : \A j \in cerca : i <= j]
        igv == IF hallado = Cero /\ Mayor(max_valor, Cero)
               THEN Round2(Por(max_valor, Dec(18, 2))) ELSE hallado
    IN  IF sig = <<>> THEN t
        ELSE [valor_venta |-> max_valor, igv |-> igv, importe_total |-> Suma(max_valor, igv)]

\* lines 891-911: the "Importe Total" line, importe_raw being the amount read
ImporteLeido(t, importe_raw) ==
    LET importe_esperado == IF Mayor(t.valor_venta, Cero) THEN Suma(t.valor_venta, t.igv) ELSE Cero
        esp_str == DigitosDe(Entero(importe_esperado))
        raw_str == DigitosDe(Entero(importe_raw))
    IN  IF Mayor(importe_esperado, Cero)
        THEN IF Len(esp_str) > Len(raw_str) /\ EndsWith(esp_str, raw_str) THEN importe_esperado
             ELSE IF Menor(Abs(Resta(importe_raw, importe_esperado)), Dec(100, 0)) THEN importe_raw
             ELSE importe_esperado
        ELSE importe_raw

\* one line of the loop at lines 779-924: a line that sets one of the totals
LineaTotales(t, linea) ==
    IF linea.etiqueta = "VALOR VENTA"
    THEN [t EXCEPT !.valor_venta = corregir_monto_ocr(linea.monto, None, Dec(5, 1))]
    ELSE IF linea.etiqueta = "IGV" THEN [t EXCEPT !.igv = linea.monto]
    ELSE [t EXCEPT !.importe_total = ImporteLeido(t, linea.monto)]

RECURSIVE LineasTotales(_, _)
LineasTotales(t, lineas) ==
    IF lineas = <<>> THEN t
    ELSE LineasTotales(LineaTotales(t, Head(lineas)), Tail(lineas))

\* lines 694-700, then the compact line and the loop over the lines
TotalesLeidos(montos_limpios, lineas) ==
    LineasTotales(LineaCompacta([valor_venta |-> Cero, igv |-> Cero, importe_total |-> Cero],
                                montos_limpios), lineas)

\* lines 925-929, the first correction
ImporteMuyBajo(t) ==
    IF Menor(t.importe_total, Dec(100, 0)) /\ Mayor(t.valor_venta, Dec(100, 0))
    THEN [t EXCEPT !.importe_total = Suma(t.valor_venta, t.igv)]
    ELSE t

\* lines 931-938, the note on the IGV
AdvertenciaIgv(t) ==
    IF Mayor(t.valor_venta, Cero) /\ Mayor(t.igv, Cero)
       /\ ~Menor(Abs(Resta(t.igv, Por(t.valor_venta, Dec(18, 2)))),
                 Por(Por(t.valor_venta, Dec(18, 2)), Dec(5, 2)))
    THEN << <<"ADVERTENCIA: IGV no es ~18% de Valor Venta", t.igv, t.valor_venta>> >>
    ELSE <<>>

\* the final cross-validation without its third step
ImporteSinAjuste(t) == t

\* lines 940-945, the third step
ImporteAjustado(t) ==
    IF Mayor(t.valor_venta, Cero) /\ Mayor(t.igv, Cero) /\ Mayor(t.importe_total, Cero)
       /\ Mayor(Abs(Resta(t.importe_total, Suma(t.valor_venta, t.igv))), Dec(10, 0))
    THEN [t EXCEPT !.importe_total = Suma(t.valor_venta, t.igv)]
    ELSE t

\* line 683 and lines 1057-1058
NotaSinLineas == <<"SECCION 3: No se encontraron lineas de factura">>

\* the totals and the validacion list of the returned dict, lines 1039-1058
totales_v5(hay_lineas, montos_limpios, lineas) ==
    LET leido == TotalesLeidos(montos_limpios, lineas)
        bajo == ImporteMuyBajo(leido)
        final == ImporteAjustado(bajo)
        validaciones == (IF hay_lineas THEN <<>> ELSE <<NotaSinLineas>>) \o AdvertenciaIgv(bajo)
    IN  [valorVenta |-> final.valor_venta,
         igv |-> final.igv,
         importeTotal |-> final.importe_total,
         validacion |-> IF validaciones # <<>> THEN validaciones ELSE << <<"OK">> >>]


(***************************************************************************)
(* Section 5 (totals) of procesar_factura_img, procesador_imagen_v6.py     *)
(***************************************************************************)
\* round(a / b, 2) for floats a >= 0, b > 0
Cociente2(a, b) ==
    LET num == 100 * Escala(a, MaxExp(a, b))
        den == Escala(b, MaxExp(a, b))
        q == num \div den
        r == num % den
    IN  IF 2 * r > den \/ (2 * r = den /\ q % 2 = 1) THEN Norm(q + 1, 2) ELSE Norm(q, 2)

\* round(x) of a float x >= 0: to the nearest integer, ties to even
Round0(x) ==
    LET p == Pow10(x.e)
        q == x.m \div p
        r == x.m % p
    IN  IF 2 * r > p \/ (2 * r = p /\ q % 2 = 1) THEN Dec(q + 1, 0) ELSE Dec(q, 0)

\* sum(c['montoCuota'] for c in lista_cuotas)
RECURSIVE SumaCuotas(_)
SumaCuotas(montos) ==
    IF montos = <<>> THEN Cero ELSE Suma(Head(montos), SumaCuotas(Tail(montos)))

\* lines 375-379
CantidadDesdeCuotas(valor_venta, valor_unitario) ==
    LET cantidad == Cociente2(valor_venta, valor_unitario)
    IN  IF Menor(Abs(Resta(cantidad, Round0(cantidad))), Dec(5, 2))
        THEN Round0(cantidad) ELSE cantidad

\* the totals with the unit price taking priority over the installments
totales_v6_unitario_primero(valor_unitario, montos_cuotas) ==
    IF Mayor(valor_unitario, Cero)
    THEN [valorVenta |-> valor_unitario, subtotalVenta |-> valor_unitario,
          igv |-> Round2(Por(valor_unitario, Dec(18, 2))),
          importeTotal |-> Suma(valor_unitario, Round2(Por(valor_unitario, Dec(18, 2)))),
          cantidad |-> Dec(1, 0)]
    ELSE IF Mayor(SumaCuotas(montos_cuotas), Cero)
    THEN LET importe_total == SumaCuotas(montos_cuotas)
             valor_venta == Cociente2(importe_total, Dec(118, 2))
         IN  [valorVenta |-> valor_venta, subtotalVenta |-> valor_venta,
              igv |-> Round2(Resta(importe_total, valor_venta)),
              importeTotal |-> importe_total,
              cantidad |-> Dec(1, 0)]
    ELSE [valorVenta |-> Cero, subtotalVenta |-> Cero, igv |-> Cero,
          importeTotal |-> Cero, cantidad |-> Dec(1, 0)]

\* lines 361-403: montos_cuotas are the montoCuota of lista_cuotas
totales_v6(valor_unitario, montos_cuotas) ==
    LET suma_cuotas == SumaCuotas(montos_cuotas)
    IN  IF Mayor(suma_cuotas, Cero)
        THEN LET importe_total == suma_cuotas
                 valor_venta == Cociente2(importe_total, Dec(118, 2))
             IN  [valorVenta |-> valor_venta, subtotalVenta |-> valor_venta,
                  igv |-> Round2(Resta(importe_total, valor_venta)),
                  importeTotal |-> importe_total,
                  cantidad |-> IF Mayor(valor_unitario, Cero)
                               THEN CantidadDesdeCuotas(valor_venta, valor_unitario)
                               ELSE Dec(1, 0)]
        ELSE IF Mayor(valor_unitario, Cero)
        THEN LET valor_venta == Por(valor_unitario, Dec(1, 0))
                 igv == Round2(Por(valor_venta, Dec(18, 2)))
             IN  [valorVenta |-> valor_venta, subtotalVenta |-> valor_venta,
                  igv |-> igv, importeTotal |-> Suma(valor_venta, igv),
                  cantidad |-> Dec(1, 0)]
        ELSE [valorVenta |-> Cero, subtotalVenta |-> Cero, igv |-> Cero,
              importeTotal |-> Cero, cantidad |-> Dec(1, 0)]

(***************************************************************************)
(* The totals of v5 and v6 computed on their own                           *)
(***************************************************************************)
\* what the three totals lines of v5 can carry
ValoresVenta == {Cero, Dec(50, 0), Dec(150, 0), Dec(4200, 0), Dec(5200, 0)}
ValoresIgv == {Cero, Dec(5, 0), Dec(9, 0), Dec(27, 0), Dec(756, 0), Dec(71821, 2), Dec(720, 0), Dec(800, 0)}
ValoresImporte ==
    {Cero, Dec(59, 0), Dec(99, 0), Dec(956, 0), Dec(4956, 0), Dec(4250, 0),
     Dec(4960, 0), Dec(4967, 0), Dec(5000, 0)}

Etiquetas5 == {"VALOR VENTA", "IGV", "IMPORTE TOTAL"}

MontosDe(etiqueta) ==
    IF etiqueta = "VALOR VENTA" THEN ValoresVenta
    ELSE IF etiqueta = "IGV" THEN ValoresIgv
    ELSE ValoresImporte

\* the totals lines in the order the OCR text has them, each at most once
Ordenes ==
    {o \in UNION { [1..k -> Etiquetas5] : k \in 0..3 } :
        \A i, j \in 1..Len(o) : i # j => o[i] # o[j]}

LineasDeTotales ==
    UNION { { [i \in 1..Len(o) |-> [etiqueta |-> o[i], monto |-> g[i]]] :
                g \in {f \in [1..Len(o) -> ValoresVenta \cup ValoresIgv \cup ValoresImporte] :
                          \A i \in 1..Len(o) : f[i] \in MontosDe(o[i])} } : o \in Ordenes }

\* the amounts of a compact totals line (none when there is no such line)
Compactas ==
    { <<>>,
      <<Dec(4200, 0), Cero, Cero, Dec(4200, 0), Cero, Dec(756, 0)>>,
      <<Dec(4200, 0), Cero, Cero, Dec(4200, 0)>>,
      <<Dec(60, 0), Dec(10, 0), Dec(5, 0), Dec(7, 0)>> }

\* what v6 reads: the unit price (0.0 when none above 100 was read) and the
\* amounts of the installments (each above 0)
MaxCuotas == 2
ValoresUnitarios == {Cero, Dec(150, 0), Dec(4200, 0), Dec(10505, 1), Dec(210013, 2)}
MontosCuota == {Dec(1652, 0), Dec(2478, 0), Dec(826, 0), Dec(1001, 1), Dec(33333, 2)}
ListasCuotas == UNION { [1..k -> MontosCuota] : k \in 0..MaxCuotas }

InitTot == totales = <<>>

\* one call of procesar_factura_img (v5) on an OCR text with these totals
TotalesV5 ==
    /\ totales = <<>>
    /\ \E hay_lineas \in BOOLEAN, montos_limpios \in Compactas, lineas \in LineasDeTotales :
           totales' = [version |-> "v5",
                       entrada |-> [hay_lineas |-> hay_lineas,
                                    montos_limpios |-> montos_limpios, lineas |-> lineas],
                       respuesta |-> totales_v5(hay_lineas, montos_limpios, lineas)]
    /\ UNCHANGED <<apiVars, extVars, montoVars, catVars, textoVars>>

\* one call of procesar_factura_img (v6)
TotalesV6 ==
    /\ totales = <<>>
    /\ \E valor_unitario \in ValoresUnitarios, montos_cuotas \in ListasCuotas :
           totales' = [version |-> "v6",
                       entrada |-> [valor_unitario |-> valor_unitario,
                                    montos_cuotas |-> montos_cuotas],
                       respuesta |-> totales_v6(valor_unitario, montos_cuotas)]
    /\ UNCHANGED <<apiVars, extVars, montoVars, catVars, textoVars>>

\* what corregir_monto_ocr is called with
MontosOcr ==
    {Cero, Dec(0 - 150, 0), Dec(520, 0), Dec(4200, 0), Dec(5200, 0), Dec(14200, 0),
     Dec(54200, 0), Dec(514200, 0), Dec(5125000, 0), Dec(525, 2), Dec(51005, 1), Dec(420050, 2)}
Referencias == {None} \cup { <<"float", r>> : r \in {Cero, Dec(200, 0), Dec(4200, 0), Dec(5200, 0)} }
Tolerancias == {Dec(5, 1), Dec(1, 1)}

\* one call of corregir_monto_ocr (v5)
CorregirMontoOcr ==
    /\ totales = <<>>
    /\ \E monto_ocr \in MontosOcr, monto_referencia \in Referencias, tolerancia \in Tolerancias :
           totales' = [version |-> "corregir_monto_ocr",
                       entrada |-> [monto |-> monto_ocr, monto_referencia |-> monto_referencia,
                                    tolerancia |-> tolerancia],
                       respuesta |-> corregir_monto_ocr(monto_ocr, monto_referencia, tolerancia)]
    /\ UNCHANGED <<apiVars, extVars, montoVars, catVars, textoVars>>

NextTot == TotalesV5 \/ TotalesV6 \/ CorregirMontoOcr

(***************************************************************************)
(* extraer_texto_easyocr (procesador_imagen_v5.py:168-196,                 *)
(* procesador_imagen_v6.py:93-121)                                         *)
(*                                                                         *)
(* A token of ocr.readtext is seen through the top-left corner of its box  *)
(* (bbox[0][0] is x, bbox[0][1] is y) and its text.                        *)
(***************************************************************************)
\* the key of sorted(): (y, x) compared as tuples
ClaveMenorIgual(a, b) == a.y < b.y \/ (a.y = b.y /\ a.x <= b.x)

\* sorted() is stable: r goes after every element whose key is not greater
RECURSIVE InsertarOrdenado(_, _)
InsertarOrdenado(s, r) ==
    IF s = <<>> THEN <<r>>
    ELSE IF ClaveMenorIgual(s[Len(s)], r) THEN Append(s, r)
         ELSE Append(InsertarOrdenado(SubSeq(s, 1, Len(s) - 1), r), s[Len(s)])

RECURSIVE Sorted(_)
Sorted(resultados) ==
    IF resultados = <<>> THEN <<>>
    ELSE InsertarOrdenado(Sorted(SubSeq(resultados, 1, Len(resultados) - 1)),
                          resultados[Len(resultados)])

\* sep.join(partes)
RECURSIVE JoinCon(_, _)
JoinCon(partes, sep) ==
    IF partes = <<>> THEN <<>>
    ELSE IF Len(partes) = 1 THEN Head(partes)
         ELSE Head(partes) \o <<sep>> \o JoinCon(Tail(partes), sep)

umbral_y == 15

CerrarLinea(lineas, linea_actual) ==
    IF linea_actual # <<>> THEN Append(lineas, JoinCon(linea_actual, " ")) ELSE lineas

\* the loop with the gap measured from the first token of the line
RECURSIVE AgruparDesdeInicio(_, _, _, _)
AgruparDesdeInicio(resultados_ordenados, lineas, linea_actual, y_anterior) ==
    IF resultados_ordenados = <<>> THEN CerrarLinea(lineas, linea_actual)
    ELSE LET r == Head(resultados_ordenados)
         IN  IF r.y - y_anterior > umbral_y
             THEN AgruparDesdeInicio(Tail(resultados_ordenados),
                                     CerrarLinea(lineas, linea_actual), <<r.texto>>, r.y)
             ELSE AgruparDesdeInicio(Tail(resultados_ordenados), lineas,
                                     Append(linea_actual, r.texto), y_anterior)

\* lines 183-194 of v5: the loop over the sorted tokens and the last line
RECURSIVE Agrupar(_, _, _, _)
Agrupar(resultados_ordenados, lineas, linea_actual, y_anterior) ==
    IF resultados_ordenados = <<>> THEN CerrarLinea(lineas, linea_actual)
    ELSE LET r == Head(resultados_ordenados)
         IN  IF r.y - y_anterior > umbral_y
             THEN Agrupar(Tail(resultados_ordenados),
                          CerrarLinea(lineas, linea_actual), <<r.texto>>, r.y)
             ELSE Agrupar(Tail(resultados_ordenados), lineas,
                          Append(linea_actual, r.texto), r.y)

\* what extraer_texto_easyocr returns for the tokens readtext gave
extraer_texto_easyocr(resultados) ==
    LET resultados_ordenados == Sorted(resultados)
        lineas == Agrupar(resultados_ordenados, <<>>, <<>>, 0 - 100)
    IN  [texto |-> JoinCon(lineas, "\n"), lineas |-> lineas,
         resultados_ordenados |-> resultados_ordenados]

(***************************************************************************)
(* The installments of procesador_imagen.py (lines 349-374) and            *)
(* limpiar_numero (lines 44-53)                                            *)
(***************************************************************************)
\* re.sub(r'S/?\.?', '', texto)
RECURSIVE QuitarS(_)
QuitarS(s) ==
    IF s = <<>> THEN <<>>
    ELSE IF Head(s) = "S"
         THEN LET a == Tail(s)
                  b == IF a # <<>> /\ Head(a) = "/" THEN Tail(a) ELSE a
                  c == IF b # <<>> /\ Head(b) = "." THEN Tail(b) ELSE b
              IN  QuitarS(c)
         ELSE <<Head(s)>> \o QuitarS(Tail(s))

\* re.search(r'(\d+\.?\d*)', s).group(1), <<>> when there is no match
PrimerDecimal(s) ==
    LET entero == PrimerosDigitos(s)
        desde == CHOOSE i \in 1..Len(s) :
                     s[i] \in Digits /\ \A j \in 1..(i - 1) : s[j] \notin Digits
        resto == SubSeq(s, desde + Len(entero), Len(s))
        fraccion == IF Len(resto) > 1 /\ resto[2] \in Digits
                    THEN PrimerosDigitos(SubSeq(resto, 2, Len(resto))) ELSE <<>>
    IN  IF entero = <<>> THEN <<>>
        ELSE IF resto # <<>> /\ Head(resto) = "." THEN entero \o <<".">> \o fraccion
        ELSE entero

\* lines 46-53; the second re.sub (r'SI\s*') finds no S left by the first
limpiar_numero(texto) ==
    IF Falsy(texto) THEN Cero
    ELSE LET sin_s == QuitarS(Strip(Str(texto)))
             limpio == SelectSeq(sin_s, LAMBDA c : c \notin {"$", "€", " ", ","})
             hallado == PrimerDecimal(limpio)
         IN  IF hallado = <<>> THEN Cero ELSE FloatOf(hallado)

\* the loop with the number advanced at every pair, kept or not
RECURSIVE CuotasImagenPorPar(_, _, _)
CuotasImagenPorPar(cuotas_match, lista_cuotas, numero_cuota) ==
    IF cuotas_match = <<>> THEN lista_cuotas
    ELSE LET fecha == Head(cuotas_match)[1]
             monto_num == limpiar_numero(Head(cuotas_match)[2])
             existe_ya == \E i \in 1..Len(lista_cuotas) :
                              /\ lista_cuotas[i].fechaVencimiento = fecha
                              /\ lista_cuotas[i].monto = monto_num
         IN  IF Mayor(monto_num, Dec(100, 0)) /\ ~existe_ya
             THEN CuotasImagenPorPar(Tail(cuotas_match),
                      Append(lista_cuotas, [numero |-> numero_cuota, fechaVencimiento |-> fecha,
                                            monto |-> monto_num]),
                      numero_cuota + 1)
             ELSE CuotasImagenPorPar(Tail(cuotas_match), lista_cuotas, numero_cuota + 1)

\* lines 362-374: the loop over the date/amount pairs found in the text
RECURSIVE CuotasImagen(_, _, _)
CuotasImagen(cuotas_match, lista_cuotas, numero_cuota) ==
    IF cuotas_match = <<>> THEN lista_cuotas
    ELSE LET fecha == Head(cuotas_match)[1]
             monto_num == limpiar_numero(Head(cuotas_match)[2])
             existe_ya == \E i \in 1..Len(lista_cuotas) :
                              /\ lista_cuotas[i].fechaVencimiento = fecha
                              /\ lista_cuotas[i].monto = monto_num
         IN  IF Mayor(monto_num, Dec(100, 0)) /\ ~existe_ya
             THEN CuotasImagen(Tail(cuotas_match),
                      Append(lista_cuotas, [numero |-> numero_cuota, fechaVencimiento |-> fecha,
                                            monto |-> monto_num]),
                      numero_cuota + 1)
             ELSE CuotasImagen(Tail(cuotas_match), lista_cuotas, numero_cuota)

\* lines 351-374 and 421-422: total_cuotas is what the text states after
\* "Total de Cuotas" (0 when it states nothing); the result does not use it
cuotas_imagen(total_cuotas, cuotas_match) ==
    LET lista_cuotas == CuotasImagen(cuotas_match, <<>>, 1)
    IN  [totalCuota |-> Len(lista_cuotas), cuotas |-> lista_cuotas]

(***************************************************************************)
(* The installments of procesador_pdf_v2.py (lines 454-522)                *)
(***************************************************************************)
\* limpiar_moneda of procesador_pdf_v2 (lines 41-49)
limpiar_moneda_pdf_v2(valor) ==
    IF Falsy(valor) THEN Cero
    ELSE LET limpio == Strip(Replace(Replace(Replace(Str(valor), <<"S", "/">>, <<>>),
                                             <<"$">>, <<>>), <<",">>, <<>>))
         IN  IF IsFloatLiteral(limpio) THEN FloatOf(limpio) ELSE Cero

\* the last position of the longest run of characters of clase that starts
\* at i (i - 1 when s[i] is not one): what a greedy clase* consumes
RECURSIVE FinDeTramo(_, _, _)
FinDeTramo(s, i, clase) ==
    IF i >= 1 /\ i <= Len(s) /\ s[i] \in clase THEN FinDeTramo(s, i + 1, clase) ELSE i - 1

\* \d{2}/\d{2}/\d{4} matches at i
FechaEn(s, i) ==
    /\ i + 9 <= Len(s)
    /\ \A j \in {0, 1, 3, 4, 6, 7, 8, 9} : s[i + j] \in Digits
    /\ s[i + 2] = "/" /\ s[i + 5] = "/"

\* [\d,]+\.\d{2} at i: the position where the match ends, 0 when there is none
FinDeMonto(s, i) ==
    LET r == FinDeTramo(s, i, Digits \cup {","})
    IN  IF r >= i /\ r + 3 <= Len(s) /\ s[r + 1] = "."
            /\ s[r + 2] \in Digits /\ s[r + 3] \in Digits
        THEN r + 3 ELSE 0

\* \s+([\d,]+\.\d{2}) after the date that starts at f
FinTrasFecha(s, f) ==
    LET c == FinDeTramo(s, f + 10, Whitespace)
    IN  IF FechaEn(s, f) /\ c >= f + 10 THEN FinDeMonto(s, c + 1) ELSE 0

\* (\d{2}/\d{2}/\d{4})\s+([\d,]+\.\d{2}) at f, whose match ends at fin
GruposFechaMonto(s, f, fin) ==
    LET c == FinDeTramo(s, f + 10, Whitespace)
    IN  <<SubSeq(s, f, f + 9), SubSeq(s, c + 1, fin)>>

\* (\d+)\s+(\d{2}/\d{2}/\d{4})\s+([\d,]+\.\d{2}) at i: where it ends, or 0
FinNumerada(s, i) ==
    LET a == FinDeTramo(s, i, Digits)
        b == FinDeTramo(s, a + 1, Whitespace)
    IN  IF a >= i /\ b >= a + 1 THEN FinTrasFecha(s, b + 1) ELSE 0

\* re.findall of the numbered format from position pos on (line 459)
RECURSIVE FindNumeradas(_, _)
FindNumeradas(s, pos) ==
    LET inicios == {i \in pos..Len(s) : s[i] \in Digits /\ FinNumerada(s, i) > 0}
    IN  IF inicios = {} THEN <<>>
        ELSE LET i == CHOOSE k \in inicios : \A l \in inicios : k <= l
                 a == FinDeTramo(s, i, Digits)
                 b == FinDeTramo(s, a + 1, Whitespace)
                 fin == FinNumerada(s, i)
             IN  <<<<SubSeq(s, i, a)>> \o GruposFechaMonto(s, b + 1, fin)>>
                     \o FindNumeradas(s, fin + 1)

\* re.findall of the format without number from position pos on (line 473)
RECURSIVE FindSinNumero(_, _)
FindSinNumero(s, pos) ==
    LET inicios == {i \in pos..Len(s) : s[i] \in Digits /\ FinTrasFecha(s, i) > 0}
    IN  IF inicios = {} THEN <<>>
        ELSE LET i == CHOOSE k \in inicios : \A l \in inicios : k <= l
                 fin == FinTrasFecha(s, i)
             IN  <<GruposFechaMonto(s, i, fin)>> \o FindSinNumero(s, fin + 1)

\* lines 460-469: the numbered matches of a line whose number is in 1..20
CuotasNumeradas(cuotas_matches) ==
    LET dentro == SelectSeq(cuotas_matches,
                      LAMBDA match : 1 <= DigitsVal(match[1]) /\ DigitsVal(match[1]) <= 20)
    IN  [k \in 1..Len(dentro) |->
            [numero |-> DigitsVal(dentro[k][1]), fechaVencimiento |-> dentro[k][2],
             monto |-> limpiar_moneda_pdf_v2(dentro[k][3])]]

\* lines 474-480: the matches without number, numbered by position in the line
CuotasSinNumero(cuotas_sin_num) ==
    IF Len(cuotas_sin_num) >= 2
    THEN [k \in 1..Len(cuotas_sin_num) |->
             [numero |-> k, fechaVencimiento |-> cuotas_sin_num[k][1],
              monto |-> limpiar_moneda_pdf_v2(cuotas_sin_num[k][2])]]
    ELSE <<>>

\* lines 457-480: method 1, the installments in the lines of the page text
RECURSIVE CuotasDelTexto(_)
CuotasDelTexto(lineas) ==
    IF lineas = <<>> THEN <<>>
    ELSE LET linea == Head(lineas)
             cuotas_matches == FindNumeradas(linea, 1)
         IN  (IF cuotas_matches # <<>> THEN CuotasNumeradas(cuotas_matches)
              ELSE CuotasSinNumero(FindSinNumero(linea, 1)))
                 \o CuotasDelTexto(Tail(lineas))

\* lines 490-501: what the annotations are taken for
EsNumeroAnotado(texto) == Len(texto) \in 1..2 /\ AllDigits(texto)
EsFechaAnotada(texto) == Len(texto) = 10 /\ FechaEn(texto, 1)
EsMontoAnotado(texto) == texto # <<>> /\ FinDeMonto(texto, 1) = Len(texto)

numeros_cuota(pdf_anotaciones) ==
    LET nums == SelectSeq(pdf_anotaciones, EsNumeroAnotado)
        dentro == SelectSeq(nums, LAMBDA t : 1 <= DigitsVal(t) /\ DigitsVal(t) <= 20)
    IN  [k \in 1..Len(dentro) |-> DigitsVal(dentro[k])]

fechas_cuota(pdf_anotaciones) ==
    SelectSeq(pdf_anotaciones, LAMBDA t : ~EsNumeroAnotado(t) /\ EsFechaAnotada(t))

montos_cuota(pdf_anotaciones) ==
    LET montos == SelectSeq(pdf_anotaciones,
                      LAMBDA t : ~EsNumeroAnotado(t) /\ ~EsFechaAnotada(t) /\ EsMontoAnotado(t))
    IN  [k \in 1..Len(montos) |-> limpiar_moneda_pdf_v2(montos[k])]

\* lines 505-514: the i-th number with the i-th date and the i-th amount,
\* added when no installment has that number yet
RECURSIVE AgregarAnotadas(_, _, _, _, _)
AgregarAnotadas(lista_cuotas, numeros, fechas, montos, i) ==
    IF i > Len(numeros) THEN lista_cuotas
    ELSE IF i <= Len(fechas) /\ i <= Len(montos)
              /\ ~\E k \in 1..Len(lista_cuotas) : lista_cuotas[k].numero = numeros[i]
         THEN AgregarAnotadas(Append(lista_cuotas,
                                  [numero |-> numeros[i], fechaVencimiento |-> fechas[i],
                                   monto |-> montos[i]]),
                              numeros, fechas, montos, i + 1)
         ELSE AgregarAnotadas(lista_cuotas, numeros, fechas, montos, i + 1)

\* lines 485-514: method 2, the installments in the annotations of the page
CuotasConAnotaciones(lista_cuotas, pdf_anotaciones) ==
    LET numeros == numeros_cuota(pdf_anotaciones)
        fechas == fechas_cuota(pdf_anotaciones)
        montos == montos_cuota(pdf_anotaciones)
    IN  IF numeros # <<>> /\ fechas # <<>> /\ montos # <<>>
        THEN AgregarAnotadas(lista_cuotas, numeros, fechas, montos, 1)
        ELSE lista_cuotas

\* the dictionary filled with every installment, a later one replacing an
\* earlier one with the same number at the earlier one's place
RECURSIVE CuotasUnicasUltima(_, _)
CuotasUnicasUltima(lista_cuotas, cuotas_unicas) ==
    IF lista_cuotas = <<>> THEN cuotas_unicas
    ELSE LET cuota == Head(lista_cuotas)
         IN  CuotasUnicasUltima(Tail(lista_cuotas),
                 IF \E k \in 1..Len(cuotas_unicas) : cuotas_unicas[k].numero = cuota.numero
                 THEN [k \in 1..Len(cuotas_unicas) |->
                          IF cuotas_unicas[k].numero = cuota.numero THEN cuota
                          ELSE cuotas_unicas[k]]
                 ELSE Append(cuotas_unicas, cuota))

\* lines 517-521: the values of the dictionary that keeps, in insertion
\* order, the first installment of each number
RECURSIVE CuotasUnicas(_, _)
CuotasUnicas(lista_cuotas, cuotas_unicas) ==
    IF lista_cuotas = <<>> THEN cuotas_unicas
    ELSE LET cuota == Head(lista_cuotas)
         IN  CuotasUnicas(Tail(lista_cuotas),
                 IF \E k \in 1..Len(cuotas_unicas) : cuotas_unicas[k].numero = cuota.numero
                 THEN cuotas_unicas
                 ELSE Append(cuotas_unicas, cuota))

\* line 522: list.sort(key=lambda x: x['numero']), stable
RECURSIVE OrdenarPorNumero(_)
OrdenarPorNumero(lista_cuotas) ==
    IF lista_cuotas = <<>> THEN <<>>
    ELSE LET ordenadas == OrdenarPorNumero(SubSeq(lista_cuotas, 1, Len(lista_cuotas) - 1))
             ultima == lista_cuotas[Len(lista_cuotas)]
             antes == SelectSeq(ordenadas, LAMBDA c : c.numero <= ultima.numero)
             despues == SelectSeq(ordenadas, LAMBDA c : c.numero > ultima.numero)
         IN  antes \o <<ultima>> \o despues

\* lines 454-522 on the text of the first page and its annotations
cuotas_pdf_v2(texto_completo, pdf_anotaciones) ==
    LET lineas == Split(texto_completo, "\n")
        del_texto == CuotasDelTexto(lineas)
        lista_cuotas == CuotasConAnotaciones(del_texto, pdf_anotaciones)
    IN  OrdenarPorNumero(CuotasUnicas(lista_cuotas, <<>>))

(***************************************************************************)
(* The tax IDs the free-text extractors assign: procesador_imagen.py       *)
(* (lines 56-59 and 80-95), procesador_imagen_v5.py (lines 293-296 and     *)
(* 376-404), procesador_pdf_v2.py (lines 166-171 and 215-236)              *)
(***************************************************************************)
\* the characters \w takes among those of the texts
Palabra ==
    Digits \cup {UpperLetters[i] : i \in 1..Len(UpperLetters)}
           \cup {LowerLetters[i] : i \in 1..Len(LowerLetters)} \cup {"_"}

\* \d{11} matches at k
OnceDigitos(s, k) == k >= 1 /\ k + 10 <= Len(s) /\ \A j \in k..(k + 10) : s[j] \in Digits

\* re.findall(r'\b(\d{11})\b', texto) from position pos on
RECURSIVE FindRucs(_, _)
FindRucs(s, pos) ==
    LET inicios == {i \in pos..Len(s) :
                       /\ OnceDigitos(s, i)
                       /\ (i = 1 \/ s[i - 1] \notin Palabra)
                       /\ (i + 11 > Len(s) \/ s[i + 11] \notin Palabra)}
    IN  IF inicios = {} THEN <<>>
        ELSE LET i == CHOOSE k \in inicios : \A l \in inicios : k <= l
             IN  <<SubSeq(s, i, i + 10)>> \o FindRucs(s, i + 11)

\* extraer_ruc (lines 56-59)
extraer_ruc(texto) ==
    SelectSeq(FindRucs(texto, 1),
              LAMBDA r : StartsWith(r, <<"1", "0">>) \/ StartsWith(r, <<"2", "0">>))

\* lines 86-90: the first RUC of a natural person as issuer, the first RUC
\* of a company as buyer
RECURSIVE AsignarPorPrefijo(_, _, _)
AsignarPorPrefijo(rucs, ruc_emisor, ruc_receptor) ==
    IF rucs = <<>> THEN [ruc_emisor |-> ruc_emisor, ruc_receptor |-> ruc_receptor]
    ELSE LET ruc == Head(rucs)
         IN  IF StartsWith(ruc, <<"1", "0">>) /\ ruc_emisor = IntCero
             THEN AsignarPorPrefijo(Tail(rucs), IntOf(ruc), ruc_receptor)
             ELSE IF StartsWith(ruc, <<"2", "0">>) /\ ruc_receptor = IntCero
                  THEN AsignarPorPrefijo(Tail(rucs), ruc_emisor, IntOf(ruc))
                  ELSE AsignarPorPrefijo(Tail(rucs), ruc_emisor, ruc_receptor)

\* str.replace(old, new) on a text: leftmost non-overlapping occurrences,
\* one step per occurrence
RECURSIVE ReplaceEnTexto(_, _, _)
ReplaceEnTexto(s, old, new) ==
    LET inicios == {i \in 1..(Len(s) - Len(old) + 1) : SubSeq(s, i, i + Len(old) - 1) = old}
    IN  IF inicios = {} THEN s
        ELSE LET i == CHOOSE k \in inicios : \A l \in inicios : k <= l
             IN  SubSeq(s, 1, i - 1) \o new
                     \o ReplaceEnTexto(SubSeq(s, i + Len(old), Len(s)), old, new)

\* lines 70 and 80-95 of procesador_imagen.py on the text docTR gives
rucs_imagen(texto_raw) ==
    LET texto == ReplaceEnTexto(ReplaceEnTexto(texto_raw, <<"\n">>, <<" ">>), <<" ", " ">>, <<" ">>)
        rucs == extraer_ruc(texto)
        a == AsignarPorPrefijo(rucs, IntCero, IntCero)
    IN  IF a.ruc_emisor = IntCero /\ rucs # <<>>
        THEN [ruc_emisor |-> IntOf(rucs[1]),
              ruc_receptor |-> IF Len(rucs) > 1 THEN IntOf(rucs[2]) ELSE a.ruc_receptor]
        ELSE a

\* the letters RUC stand at i
RucEn(s, i) == i + 2 <= Len(s) /\ SubSeq(s, i, i + 2) = <<"R", "U", "C">>

\* where the eleven digits start when RUC[:\s]*(\d{11}) matches at i, else 0
DigitosTrasRuc(s, i) ==
    LET k == FinDeTramo(s, i + 3, Whitespace \cup {":"}) + 1
    IN  IF RucEn(s, i) /\ OnceDigitos(s, k) THEN k ELSE 0

\* the same for RUC\s*:?\s*(\d{11})
DigitosTrasRucDosPuntosOpcional(s, i) ==
    LET a == FinDeTramo(s, i + 3, Whitespace)
        b == IF a + 1 <= Len(s) /\ s[a + 1] = ":" THEN a + 1 ELSE a
        k == FinDeTramo(s, b + 1, Whitespace) + 1
    IN  IF RucEn(s, i) /\ OnceDigitos(s, k) THEN k ELSE 0

\* the same for RUC\s*:\s*(\d{11})
DigitosTrasRucDosPuntos(s, i) ==
    LET a == FinDeTramo(s, i + 3, Whitespace)
        k == FinDeTramo(s, a + 2, Whitespace) + 1
    IN  IF RucEn(s, i) /\ a + 1 <= Len(s) /\ s[a + 1] = ":"
            /\ OnceDigitos(s, k)
        THEN k ELSE 0

\* where the eleven digits start when the pattern matches at i, else 0
DigitosTras(patron, s, i) ==
    CASE patron = "RUC, colons or blanks" -> DigitosTrasRuc(s, i)
      [] patron = "RUC, an optional colon" -> DigitosTrasRucDosPuntosOpcional(s, i)
      [] patron = "RUC, a colon" -> DigitosTrasRucDosPuntos(s, i)

\* re.search(patron, s): group(1) of the leftmost match, <<>> when there is none
BuscarRuc(s, patron) ==
    LET inicios == {i \in 1..Len(s) : DigitosTras(patron, s, i) > 0}
    IN  IF inicios = {} THEN <<>>
        ELSE LET i == CHOOSE k \in inicios : \A l \in inicios : k <= l
             IN  SubSeq(s, DigitosTras(patron, s, i), DigitosTras(patron, s, i) + 10)

\* the first line from position i on whose RUC is not the issuer's gives the
\* buyer, up to line hasta (v5 lines 396-404, pdf_v2 lines 227-236)
ReceptorDesde(lineas, i, hasta, ruc_emisor, patron) ==
    LET otros == {k \in i..hasta :
                     /\ BuscarRuc(lineas[k], patron) # <<>>
                     /\ IntOf(BuscarRuc(lineas[k], patron)) # ruc_emisor}
    IN  IF otros = {} THEN IntCero
        ELSE IntOf(BuscarRuc(lineas[CHOOSE k \in otros : \A l \in otros : k <= l], patron))

\* lines 293-296 and 376-404 of procesador_imagen_v5.py on the lines
\* extraer_texto_easyocr gives
rucs_v5(lineas) ==
    LET texto_completo == JoinCon(lineas, "\n")
        match_ruc == BuscarRuc(texto_completo, "RUC, colons or blanks")
        ruc_emisor == IF match_ruc # <<>> THEN IntOf(match_ruc) ELSE IntCero
    IN  [ruc_emisor |-> ruc_emisor,
         ruc_receptor |-> ReceptorDesde(lineas, 1, Len(lineas), ruc_emisor,
                                        "RUC, an optional colon")]

\* lines 167-171: the RUC of the first of the first five lines that has one
RECURSIVE EmisorPdfV2(_, _)
EmisorPdfV2(lineas, i) ==
    IF i > Len(lineas) \/ i > 5 THEN IntCero
    ELSE LET hallado == BuscarRuc(lineas[i], "RUC, a colon")
         IN  IF hallado # <<>> THEN IntOf(hallado) ELSE EmisorPdfV2(lineas, i + 1)

\* lines 220-223: the index (from 0) of the first line with "Señor(es)", -1
\* when there is none
IdxSenor(lineas) ==
    LET con == {i \in 1..Len(lineas) :
                   /\ Contains(lineas[i], <<"S", "e">>)
                   /\ Contains(lineas[i], <<"o", "r">>)
                   /\ Contains(lineas[i], <<"(">>)}
    IN  IF con = {} THEN -1 ELSE (CHOOSE i \in con : \A j \in con : i <= j) - 1

\* lines 142, 166-171 and 215-236 of procesador_pdf_v2.py on the page text
rucs_pdf_v2(texto_completo) ==
    LET lineas == Split(texto_completo, "\n")
        ruc_emisor == EmisorPdfV2(lineas, 1)
        idx_senor == IdxSenor(lineas)
        fin == IF idx_senor + 10 < Len(lineas) THEN idx_senor + 10 ELSE Len(lineas)
    IN  [ruc_emisor |-> ruc_emisor,
         ruc_receptor |-> IF idx_senor > 0
                          THEN ReceptorDesde(lineas, idx_senor + 1, fin, ruc_emisor,
                                             "RUC, a colon")
                          ELSE IntCero]

(***************************************************************************)
(* The steps of the free-text extractors computed on their own             *)
(***************************************************************************)
\* the tokens readtext can give: corners at these heights, two columns
MaxFichas == 3
AlturasFicha == {0 - 90, 0, 15, 16, 31}
Fichas ==
    { [y |-> y, x |-> 0, texto |-> <<"S", "/">>] : y \in AlturasFicha }
        \cup { [y |-> y, x |-> 7, texto |-> <<"4", ",", "2", "0", "0", ".", "0", "0">>] : y \in AlturasFicha }
        \cup { [y |-> 15, x |-> 0, texto |-> <<"I", "G", "V">>] }
Lecturas == UNION { [1..k -> Fichas] : k \in 0..MaxFichas }

InitTexto == extraido = <<>>

\* one call of extraer_texto_easyocr (v5, v6) on an image with these tokens
ExtraerTextoEasyocr ==
    /\ extraido = <<>>
    /\ \E resultados \in Lecturas :
           extraido' = [paso |-> "extraer_texto_easyocr", entrada |-> resultados,
                        respuesta |-> extraer_texto_easyocr(resultados)]
    /\ UNCHANGED <<apiVars, extVars, montoVars, catVars, totVars>>

\* the date/amount pairs re.findall gives at line 359
MaxPares == 2
FechasPar == {<<"2", "9", "/", "0", "2", "/", "2", "0", "2", "4">>, <<"3", "1", "/", "0", "3", "/", "2", "0", "2", "4">>}
MontosPar == {<<"2", ",", "4", "7", "8", ".", "0", "0">>, <<"2", "4", "7", "8", ".", "0", "0">>, <<"1", "0", "0", ".", "0", "0">>, <<"1", "0", "0", ".", "0", "1">>, <<",", ".", "0", "0">>}
ParesFechaMonto == UNION { [1..k -> FechasPar \X MontosPar] : k \in 0..MaxPares }

\* the installments procesador_imagen.procesar_factura_img reads from a text
CuotasDeImagen ==
    /\ extraido = <<>>
    /\ \E total_cuotas \in {0, 3}, cuotas_match \in ParesFechaMonto :
           extraido' = [paso |-> "cuotas_imagen",
                        entrada |-> [total_cuotas |-> total_cuotas, cuotas_match |-> cuotas_match],
                        respuesta |-> cuotas_imagen(total_cuotas, cuotas_match)]
    /\ UNCHANGED <<apiVars, extVars, montoVars, catVars, totVars>>

\* the text of a page: up to MaxGrupos pieces, each on the line of the piece
\* before or on a new line
MaxGrupos == 2
Grupos ==
    {<<"1", " ", "0", "1", "/", "1", "2", "/", "2", "0", "2", "5", " ", "2", ",", "1", "0", "0", ".", "0", "0">>, <<"1", " ", "2", "8", "/", "1", "2", "/", "2", "0", "2", "5", " ", "5", "0", "0", ".", "0", "2">>, <<"2", " ", "2", "8", "/", "1", "2", "/", "2", "0", "2", "5", " ", "5", "0", "0", ".", "0", "2">>,
     <<"2", "1", " ", "0", "1", "/", "1", "2", "/", "2", "0", "2", "5", " ", "2", ",", "1", "0", "0", ".", "0", "0">>, <<"0", "1", "/", "1", "2", "/", "2", "0", "2", "5", " ", "2", ",", "1", "0", "0", ".", "0", "0">>, <<"2", "8", "/", "1", "2", "/", "2", "0", "2", "5", " ", "5", "0", "0", ".", "0", "2">>,
     <<"0", "1", "/", "1", "2", "/", "2", "0", "2", "5", " ", "2", ",", "1", "0", "0", ".", "0", "0", " ", "-", " ", "2", "8", "/", "1", "2", "/", "2", "0", "2", "5", " ", "5", "0", "0", ".", "0", "2">>}

RECURSIVE TextosDe(_)
TextosDe(n) ==
    IF n = 0 THEN {<<>>}
    ELSE IF n = 1 THEN Grupos
    ELSE {t \o sep \o g : t \in TextosDe(n - 1), sep \in {<<" ">>, <<"\n">>}, g \in Grupos}

TextosDePagina == UNION {TextosDe(n) : n \in 0..MaxGrupos}

\* the contents of the annotations of a page, in the order of the page
Anotaciones ==
    {<<>>,
     <<<<"2">>, <<"3", "0", "/", "1", "2", "/", "2", "0", "2", "5">>, <<"2", ",", "6", "2", "5", ".", "0", "0">>>>,
     <<<<"3">>, <<"3">>, <<"3", "0", "/", "1", "2", "/", "2", "0", "2", "5">>, <<"3", "1", "/", "1", "2", "/", "2", "0", "2", "5">>, <<"2", ",", "6", "2", "5", ".", "0", "0">>, <<"1", ",", "0", "0", "0", ".", "0", "0">>>>,
     <<<<"2", "1">>, <<"1">>, <<"0">>, <<"3", "0", "/", "1", "2", "/", "2", "0", "2", "5">>, <<"2", ",", "6", "2", "5", ".", "0", "0">>, <<"S", "/", " ", "9", ".", "0", "0">>>>,
     <<<<"2">>, <<"1">>, <<"3", "0", "/", "1", "2", "/", "2", "0", "2", "5">>, <<"2", ",", "6", "2", "5", ".", "0", "0">>>>,
     <<<<"2">>, <<"3", "0", "/", "1", "2", "/", "2", "0", "2", "5">>>>}

CuotasDePdfV2 ==
    /\ extraido = <<>>
    /\ \E texto_completo \in TextosDePagina, pdf_anotaciones \in Anotaciones :
          extraido' = [paso |-> "cuotas_pdf_v2",
                       entrada |-> [texto_completo |-> texto_completo,
                                    pdf_anotaciones |-> pdf_anotaciones],
                       respuesta |-> cuotas_pdf_v2(texto_completo, pdf_anotaciones)]
    /\ UNCHANGED <<apiVars, extVars, montoVars, catVars, totVars>>

\* the lines of a text with tax IDs: up to MaxLineasRuc of these
MaxLineasRuc == 3
LineasRuc ==
    {<<"R", "U", "C", ":", " ", "2", "0", "1", "0", "0", "0", "7", "0", "9", "7", "0">>, <<"R", "U", "C", " ", " ", "2", "0", "1", "0", "0", "0", "7", "0", "9", "7", "0">>, <<"R", "U", "C", ":", " ", "1", "0", "4", "5", "6", "7", "8", "9", "0", "1", "2">>, <<"R", "U", "C", " ", ":", " ", "2", "0", "5", "1", "2", "3", "4", "5", "6", "7", "8">>,
     <<"2", "0", "1", "0", "0", "0", "7", "0", "9", "7", "0">>, <<"S", "e", "n", "o", "r", "(", "e", "s", ")", " ", ":", " ", "A", "C", "M", "E", " ", "S", "A", "C">>, <<"R", "U", "C", ":", " ", "2", "0", "1", "0", "0", "0", "7", "0", "9", "7", "0", " ", "R", "U", "C", ":", "2", "0", "5", "1", "2", "3", "4", "5", "6", "7", "8">>,
     <<"F", "0", "0", "1", "-", "2", "0", "1", "0", "0", "0", "7", "0", "9", "7", "0", " ", "R", "U", "C", "1", "0", "4", "5", "6", "7", "8", "9", "0", "1", "2">>}

TextosRuc == UNION {[1..n -> LineasRuc] : n \in 0..MaxLineasRuc}

RucsImagen ==
    /\ extraido = <<>>
    /\ \E lineas \in TextosRuc :
          extraido' = [paso |-> "rucs", extractor |-> "procesador_imagen", entrada |-> lineas,
                       respuesta |-> rucs_imagen(JoinCon(lineas, "\n"))]
    /\ UNCHANGED <<apiVars, extVars, montoVars, catVars, totVars>>

RucsV5 ==
    /\ extraido = <<>>
    /\ \E lineas \in TextosRuc :
          extraido' = [paso |-> "rucs", extractor |-> "procesador_imagen_v5", entrada |-> lineas,
                       respuesta |-> rucs_v5(lineas)]
    /\ UNCHANGED <<apiVars, extVars, montoVars, catVars, totVars>>

RucsPdfV2 ==
    /\ extraido = <<>>
    /\ \E lineas \in TextosRuc :
          extraido' = [paso |-> "rucs", extractor |-> "procesador_pdf_v2", entrada |-> lineas,
                       respuesta |-> rucs_pdf_v2(JoinCon(lineas, "\n"))]
    /\ UNCHANGED <<apiVars, extVars, montoVars, catVars, totVars>>

NextTexto == ExtraerTextoEasyocr \/ CuotasDeImagen \/ CuotasDePdfV2 \/ RucsImagen \/ RucsV5 \/ RucsPdfV2

(***************************************************************************)
(* The specifications: each runs one part, the others stay at rest         *)
(***************************************************************************)
ApiEnReposo ==
    /\ upload = <<>> /\ pc = <<>> /\ nombre_temporal = <<>> /\ respuesta = <<>>
    /\ eventos = <<>> /\ disco = {} /\ llamadas = <<>> /\ modelo_doctr = "None"
    /\ cargas = 0 /\ corriendo = 0 /\ uuids = 0

ExtEnReposo ==
    /\ motor = "ninguno" /\ existe = FALSE /\ xml = <<>>
    /\ pdf = <<>> /\ ediciones = 0 /\ parseos = 0 /\ resultado = <<>>

MontoEnReposo == valor_str = <<>> /\ monto = <<>>

CatEnReposo == devuelto = <<>>

TotEnReposo == totales = <<>>

TextoEnReposo == extraido = <<>>

OtrosEnReposo == CatEnReposo /\ TotEnReposo /\ TextoEnReposo

InitSpecApi == InitApi /\ ExtEnReposo /\ MontoEnReposo /\ OtrosEnReposo
SpecApi == InitSpecApi /\ [][NextApi]_vars

InitSpecExt == InitExt /\ ApiEnReposo /\ MontoEnReposo /\ OtrosEnReposo
SpecExt == InitSpecExt /\ [][NextExt]_vars

InitSpecMonto == InitMonto /\ ApiEnReposo /\ ExtEnReposo /\ OtrosEnReposo
SpecMonto == InitSpecMonto /\ [][NextMonto]_vars

InitSpecCat ==
    InitCat /\ ApiEnReposo /\ ExtEnReposo /\ MontoEnReposo /\ TotEnReposo /\ TextoEnReposo
SpecCat == InitSpecCat /\ [][NextCat]_vars

InitSpecTot ==
    InitTot /\ ApiEnReposo /\ ExtEnReposo /\ MontoEnReposo /\ CatEnReposo /\ TextoEnReposo
SpecTot == InitSpecTot /\ [][NextTot]_vars

InitSpecTexto ==
    InitTexto /\ ApiEnReposo /\ ExtEnReposo /\ MontoEnReposo /\ CatEnReposo /\ TotEnReposo
SpecTexto == InitSpecTexto /\ [][NextTexto]_vars

(***************************************************************************)
(* Properties                                                              *)
(***************************************************************************)
MuestraSoles == <<"S", "/", " ", "4", ",", "2", "0", "0", ".", "0", "0">>
MuestraEuropea == <<"4", ".", "2", "0", "0", ",", "0", "0">>
MuestraBasura == <<"g", "a", "r", "b", "a", "g", "e">>

\* C10: limpiar_monto("S/ 4,200.00") is 4200.00, limpiar_monto("4.200,00")
\* is 4200.00 and limpiar_monto("garbage") is 0.0, in v5 and in v6 alike
C10_Muestras ==
    monto # <<>> /\ monto[1] \in {"v5", "v6"} =>
        /\ valor_str = MuestraSoles => monto[2] = [m |-> 4200, e |-> 0]
        /\ valor_str = MuestraEuropea => monto[2] = [m |-> 4200, e |-> 0]
        /\ valor_str = MuestraBasura => monto[2] = Cero

C10_Witness ==
    /\ monto = <<"v6", [m |-> 4200, e |-> 0]>>
    /\ valor_str = MuestraEuropea


\* the two shapes of an extractor's result
EsExito(v) == DOMAIN v = {"factura", "validacion"} /\ v.validacion = <<>>
EsFallo(v) == DOMAIN v = {"validacion"} /\ Len(v.validacion) = 1

ProcesadoXml == resultado # <<>> /\ motor = "xml" /\ existe

\* the end-to-end scenario: PayableAmount 4956.00, LineExtensionAmount
\* 4200.00 and, as the invoice's TaxTotal, one of 756.00 under scheme 1000
EscenarioImportes(doc) ==
    /\ doc.payable = El(<<"4", "9", "5", "6", ".", "0", "0">>)
    /\ doc.line_ext = El(<<"4", "2", "0", "0", ".", "0", "0">>)
    /\ Len(doc.tax_totals) = 1
    /\ doc.tax_totals[1].amount = El(<<"7", "5", "6", ".", "0", "0">>)
    /\ doc.tax_totals[1].subtotals # <<>>
    /\ doc.tax_totals[1].subtotals[1].scheme = El(<<"1", "0", "0", "0">>)

EsDecimal(nodo) == nodo.present => (nodo.text # <<>> /\ IsFloatLiteral(nodo.text))
EsFecha(nodo) == nodo.present => (nodo.text # <<>> /\ Len(Split(nodo.text, "-")) = 3)
ValidoUBL(archivo) ==
    LET doc == archivo.doc
    IN  /\ archivo.bien_formado
        /\ doc.emisor /\ doc.emisor_id.present /\ AllDigits(Strip(doc.emisor_id.text))
        /\ Head(Strip(doc.emisor_id.text)) # "0"
        /\ doc.id.present /\ Strip(doc.id.text) # <<>>
        /\ doc.payable.present /\ doc.payable.text # <<>>
        /\ \A c \in {"payable", "line_ext", "allowance", "charge"} : EsDecimal(doc[c])
        /\ EsFecha(doc.fecha)
        /\ \A i \in 1..Len(doc.payment_terms) :
               EsDecimal(doc.payment_terms[i].amount) /\ EsFecha(doc.payment_terms[i].due)
        /\ \A i \in 1..Len(doc.lineas) :
               EsDecimal(doc.lineas[i].qty) /\ EsDecimal(doc.lineas[i].price)
        /\ \A i \in 1..Len(doc.tax_totals) :
               /\ EsDecimal(doc.tax_totals[i].amount)
               /\ \A j \in 1..Len(doc.tax_totals[i].subtotals) :
                      EsDecimal(doc.tax_totals[i].subtotals[j].amount)

\* C6: for every valid UBL 2.1 invoice the result carries the issuer tax ID
\* as rucEmisor, cbc:ID as numeroFactura and PayableAmount as importeTotal,
\* each denoting what the source text denotes
C6_IdaYVuelta ==
    (ProcesadoXml /\ ValidoUBL(xml)) =>
        /\ EsExito(resultado[1])
        /\ resultado[1].factura.rucEmisor = Strip(xml.doc.emisor_id.text)
        /\ resultado[1].factura.numeroFactura = Strip(xml.doc.id.text)
        /\ resultado[1].factura.importeTotal = FloatOf(xml.doc.payable.text)

\* a complete invoice with a single extracted element absent or empty
Ausentes == {NoNode, El(<<>>)}
UnElementoAusente(doc) ==
    \E b \in DocsBase :
        \/ \E campo \in CamposNodo, v \in Ausentes :
               b[campo] # v /\ doc = [b EXCEPT ![campo] = v]
        \/ \E campo \in CamposParte : doc = [b EXCEPT ![campo] = FALSE]
        \/ \E i \in 1..Len(b.notas) : doc = [b EXCEPT !.notas[i] = El(<<>>)]
        \/ \E i \in 1..Len(b.lineas), campo \in {"qty", "price", "desc"}, v \in Ausentes :
               doc = [b EXCEPT !.lineas[i][campo] = v]
        \/ \E i \in 1..Len(b.payment_terms), campo \in {"amount", "due"}, v \in Ausentes :
               b.payment_terms[i][campo] # v /\ doc = [b EXCEPT !.payment_terms[i][campo] = v]

\* C7: a well-formed document with any single extracted element absent or
\* empty still yields a factura, with validacion []
C7_CampoAusente ==
    (ProcesadoXml /\ xml.bien_formado /\ UnElementoAusente(xml.doc)) => EsExito(resultado[1])

\* C8: on a path that does not exist procesar_factura_xml and
\* procesar_factura_pdf return exactly {"validacion": ["El archivo no existe"]}
\* and parse nothing
C8_ArchivoNoExiste ==
    (resultado # <<>> /\ ~existe) =>
        /\ resultado[1] = [validacion |-> <<"El archivo no existe">>]
        /\ parseos = 0

C8_Witness ==
    /\ resultado = << [validacion |-> <<"El archivo no existe">>] >>
    /\ ~existe /\ motor = "pdf" /\ pdf.abre /\ parseos = 0

\* the statement that raises, if any, in the call made
HuboExcepcion ==
    /\ existe
    /\ \/ motor = "xml" /\ ExcepcionXml(xml) # ""
       \/ motor = "pdf" /\ ExcepcionPdf(pdf) # ""

\* C9: a result of procesar_factura_xml or procesar_factura_pdf is either
\* {factura, validacion: []} or {validacion: [one message]} without factura,
\* and an exception always gives the second
C9_DosFormas ==
    resultado # <<>> =>
        /\ EsExito(resultado[1]) \/ EsFallo(resultado[1])
        /\ HuboExcepcion => EsFallo(resultado[1])
        /\ (existe /\ ~HuboExcepcion) => EsExito(resultado[1])

C9_Witness ==
    /\ resultado # <<>> /\ HuboExcepcion
    /\ motor = "xml" /\ xml.bien_formado
    /\ EsFallo(resultado[1])


Range(s) == { s[i] : i \in 1..Len(s) }

\* the upload's lower-cased last dot-separated segment is a supported one
Soportada(u) ==
    u.filename # None /\ Extension(u.filename) \in {<<"p", "d", "f">>, <<"x", "m", "l">>, <<"p", "n", "g">>, <<"j", "p", "g">>, <<"j", "p", "e", "g">>}
NoSoportada(u) ==
    u.filename # None /\ Extension(u.filename) \notin {<<"p", "d", "f">>, <<"x", "m", "l">>, <<"p", "n", "g">>, <<"j", "p", "g">>, <<"j", "p", "e", "g">>}

MotorEsperado(u) ==
    IF Extension(u.filename) = <<"p", "d", "f">> THEN "procesar_factura_pdf"
    ELSE IF Extension(u.filename) = <<"x", "m", "l">> THEN "procesar_factura_xml"
    ELSE "procesar_factura_img"

LlamadasDe(r) == { i \in 1..Len(llamadas) : llamadas[i].req = r }

\* one call, of the extension's extractor, on the request's temp file, whose
\* returned value is the response
UnaLlamada(r) ==
    /\ Cardinality(LlamadasDe(r)) = 1
    /\ LET ll == llamadas[CHOOSE i \in LlamadasDe(r) : TRUE]
       IN  /\ ll.motor = MotorEsperado(upload[r])
           /\ ll.ruta = nombre_temporal[r]
           /\ ll.retorno # <<>> => respuesta[r] = Retorno(ll.retorno[1])

EsErrorInterno(resp) ==
    /\ resp.tipo = "return"
    /\ DOMAIN resp.valor = {"validacion"}
    /\ Len(resp.valor.validacion) = 1

\* C1 as stated: every finished request with a supported extension has had
\* exactly one extractor invoked exactly once on its temp file
C1_SiempreUnExtractor ==
    \A r \in Reqs : (pc[r] = "done" /\ Soportada(upload[r])) => UnaLlamada(r)

\* C1: a finished request with a supported extension whose temp file was
\* written has had exactly one extractor invoked exactly once on that file
\* (pdf, xml or image by extension), and the response is the value the
\* extractor returned; when writing the temp file raised, no extractor was
\* invoked and the response is a single validacion message
C1_UnExtractor ==
    \A r \in Reqs :
        (pc[r] = "done" /\ Soportada(upload[r])) =>
            IF "written" \in Range(eventos[r])
            THEN UnaLlamada(r)
            ELSE LlamadasDe(r) = {} /\ EsErrorInterno(respuesta[r])

C1_Witness ==
    \E r \in Reqs :
        /\ pc[r] = "done" /\ Extension(upload[r].filename) = <<"p", "d", "f">>
        /\ UnaLlamada(r)
        /\ EsExito(respuesta[r].valor)
        /\ \E q \in Reqs : pc[q] = "done" /\ Soportada(upload[q]) /\ LlamadasDe(q) = {}

\* C2: every finished request has returned a value; none has raised
C2_TodoAtrapado ==
    \A r \in Reqs : pc[r] = "done" => respuesta[r].tipo = "return"

RECURSIVE EsSubsecuencia(_, _)
EsSubsecuencia(s, t) ==
    IF s = <<>> THEN TRUE
    ELSE IF t = <<>> THEN FALSE
    ELSE IF Head(s) = Head(t) THEN EsSubsecuencia(Tail(s), Tail(t))
    ELSE EsSubsecuencia(s, Tail(t))

\* "created" is the temp file opened but not written whole, "remove_failed"
\* an os.remove that raised
Fase(e) ==
    IF e \in {"written", "created"} THEN "written"
    ELSE IF e \in {"removed", "remove_failed"} THEN "removed"
    ELSE e
EnOrden(r) ==
    EsSubsecuencia([i \in 1..Len(eventos[r]) |-> Fase(eventos[r][i])],
                   <<"written", "invoked", "removed", "responded">>)

ConTemporal(r) == pc[r] = "done" /\ nombre_temporal[r] # NoPath

\* C3 as stated: the events of a request with a supported extension come in
\* the order written, invoked, removed, responded, and the temp file of a
\* finished request is gone
C3_TemporalBorrado ==
    \A r \in Reqs :
        /\ nombre_temporal[r] # NoPath => EnOrden(r)
        /\ ConTemporal(r) => nombre_temporal[r] \notin disco

\* C3: the events of a request with a supported extension come in the order
\* written, invoked, removed, responded; once the request has finished, the
\* removal of a temp file it created was attempted, and the file is gone
\* unless os.remove itself raised
C3_LimpiezaIntentada ==
    \A r \in Reqs :
        /\ nombre_temporal[r] # NoPath => EnOrden(r)
        /\ ConTemporal(r) =>
              /\ eventos[r][Len(eventos[r])] = "responded"
              /\ (Range(eventos[r]) \cap {"written", "created"} # {}) =>
                     (Range(eventos[r]) \cap {"removed", "remove_failed"} # {})
              /\ ("remove_failed" \notin Range(eventos[r])) => nombre_temporal[r] \notin disco
              /\ ("removed" \in Range(eventos[r])) => nombre_temporal[r] \notin disco

C3_Witness ==
    \E r \in Reqs :
        /\ ConTemporal(r)
        /\ eventos[r] = <<"written", "invoked", "removed", "responded">>
        /\ respuesta[r].valor.validacion # <<>>
        /\ Extension(upload[r].filename) = <<"p", "n", "g">>
        /\ nombre_temporal[r] \notin disco

\* C4: a request whose extension is none of pdf, xml, png, jpg, jpeg returns
\* the unsupported-format message in that one step, creating no temp file or
\* temp name, invoking no extractor and leaving the OCR model as it was
C4_NoSoportado ==
    [][\A r \in Reqs :
          (pc[r] = "idle" /\ pc'[r] # "idle" /\ NoSoportada(upload'[r])) =>
              /\ pc'[r] = "done"
              /\ respuesta'[r] =
                    Retorno([validacion |-> <<"Formato de archivo no soportado. Use PDF, XML o Imágenes.">>])
              /\ UNCHANGED <<disco, llamadas, modelo_doctr, cargas, nombre_temporal, uuids, corriendo>>]_vars

C4_Witness ==
    \E r \in Reqs :
        /\ pc[r] = "done" /\ NoSoportada(upload[r])
        /\ Extension(upload[r].filename) = <<"t", "x", "t">>
        /\ respuesta[r].valor.validacion[1] = MsgNoSoportado
        /\ nombre_temporal[r] = NoPath /\ LlamadasDe(r) = {}
        /\ modelo_doctr = "model" /\ cargas = 1


(***************************************************************************)
(* C11: the separator rule shared by limpiar_monto and limpiar_moneda      *)
(***************************************************************************)
\* the value is a str
EsTexto(v) == v # None /\ ~EsNumero(v)

SoloDigitosYSeparadores(t) ==
    /\ EsTexto(t)
    /\ \A i \in 1..Len(t) : t[i] \in Digits \cup {",", "."}
    /\ \E i \in 1..Len(t) : t[i] \in Digits

Comas(t) == Cardinality({i \in 1..Len(t) : t[i] = ","})
Puntos(t) == Cardinality({i \in 1..Len(t) : t[i] = "."})
SinCaracter(t, c) == SelectSeq(t, LAMBDA x : x # c)
UltimoPunto(t) == CHOOSE i \in 1..Len(t) : t[i] = "." /\ \A j \in (i + 1)..Len(t) : t[j] # "."
LaComa(t) == CHOOSE i \in 1..Len(t) : t[i] = ","

\* the float written by the digits ds with dec of them after the decimal mark
Decimal(ds, dec) == Norm(DigitsVal(ds), dec)

\* two periods and no comma: the last period is the decimal mark
DosPuntos(t) == SoloDigitosYSeparadores(t) /\ Puntos(t) = 2 /\ Comas(t) = 0
\* one comma, no period, exactly two digits after the comma: the comma is the decimal mark
ComaDecimal(t) ==
    SoloDigitosYSeparadores(t) /\ Comas(t) = 1 /\ Puntos(t) = 0 /\ LaComa(t) = Len(t) - 2
\* commas only, not in the decimal position: thousands markers
ComasDeMiles(t) ==
    SoloDigitosYSeparadores(t) /\ Comas(t) >= 1 /\ Puntos(t) = 0 /\ ~ComaDecimal(t)

\* C11: every cleaner (limpiar_monto v5/v6, limpiar_moneda v3/v4) follows the
\* reference rule on a token of digits and separators: with two periods the
\* last one is the decimal mark ("5.200.00" is 5200.00), a single comma
\* followed by exactly two digits is the decimal mark ("4200,50" is 4200.50),
\* and other commas are thousands markers ("4,200" is 4200.0).
C11_ReglaDeReferencia ==
    monto # <<>> =>
        /\ DosPuntos(valor_str) =>
               monto[2] = Decimal(SinCaracter(valor_str, "."), Len(valor_str) - UltimoPunto(valor_str))
        /\ ComaDecimal(valor_str) =>
               monto[2] = Decimal(SinCaracter(valor_str, ","), 2)
        /\ ComasDeMiles(valor_str) =>
               monto[2] = Decimal(SinCaracter(valor_str, ","), 0)


(***************************************************************************)
(* C12: limpiar_monto is total and gives 0.0 for what is not an amount     *)
(***************************************************************************)
EsFloat(x) == DOMAIN x = {"m", "e"}

\* the characters an amount is read from: digits and the letters OCR
\* confuses with a digit
LeidoComoDigito == Digits \cup {"O", "o", "D", "U", "u", "I", "l"}

\* a value that can stand for a currency amount: a number, or a text with at
\* least one character read as a digit
PuedeSerImporte(v) ==
    \/ EsNumero(v)
    \/ EsTexto(v) /\ \E i \in 1..Len(v) : v[i] \in LeidoComoDigito

\* C12: limpiar_monto (v5, v6) returns a float for every input (None, the
\* empty string, a number, any string) and never raises; for every input
\* that is not a parseable currency amount it returns exactly 0.0.
C12_CeroSiNoEsImporte ==
    monto # <<>> /\ monto[1] \in {"v5", "v6"} =>
        /\ EsFloat(monto[2])
        /\ ~PuedeSerImporte(valor_str) => monto[2] = Cero


(***************************************************************************)
(* C13: OCR confusions and currency markers in limpiar_monto               *)
(***************************************************************************)
MuestrasMarcador == { <<"S", "/", " ", "4", ",", "2", "u", "u", ".", "U", "U">>, <<"5", "/", " ", "4", ",", "2", "0", "0", ".", "0", "0">>, <<"5", "1", " ", "4", ",", "2", "0", "0", ".", "0", "0">>, <<"5", " ", "4", ",", "2", "0", "0", ".", "0", "0">> }

\* the digit each confused letter stands for
LetraCorregida(c) ==
    IF c \in {"O", "o", "D", "U", "u"} THEN "0"
    ELSE IF c \in {"I", "l"} THEN "1"
    ELSE c

Corregido(t) == [i \in 1..Len(t) |-> LetraCorregida(t[i])]

TieneConfusion(t) == \E i \in 1..Len(t) : LetraCorregida(t[i]) # t[i]

\* C13: limpiar_monto substitutes the OCR confusions before parsing (every
\* O, o, D, U, u becomes 0 and every I, l becomes 1, so a token gives what
\* the token with the letters already corrected gives) and removes a leading
\* currency marker "S/", "5/", "51", "5 ": "S/ 4,2uu.UU", "5/ 4,200.00",
\* "51 4,200.00" and "5 4,200.00" all give 4200.00.
C13_ConfusionesOCR ==
    monto # <<>> /\ monto[1] \in {"v5", "v6"} /\ EsTexto(valor_str) =>
        /\ valor_str \in MuestrasMarcador => monto[2] = [m |-> 4200, e |-> 0]
        /\ monto[1] = "v5" => monto[2] = limpiar_monto_v5(Corregido(valor_str))
        /\ monto[1] = "v6" => monto[2] = limpiar_monto_v6(Corregido(valor_str))

C13_Witness ==
    /\ monto = <<"v5", [m |-> 4200, e |-> 0]>>
    /\ valor_str = <<"S", "/", " ", "4", ",", "2", "u", "u", ".", "U", "U">>


(***************************************************************************)
(* C14: convertir_unidad_medida                                            *)
(***************************************************************************)
Convertido == devuelto # <<>> /\ devuelto[1] = "convertir_unidad_medida"

EnCatalogo03(codigo) == \E p \in CATALOGO_03_UNIDAD_MEDIDA : p[1] = codigo

\* C14: convertir_unidad_medida("NIU") is "UNIDAD", every code of
\* CATALOGO_03_UNIDAD_MEDIDA gives its label, and every code that is not in
\* the catalog is returned unchanged, character for character.
C14_CodigoDesconocido ==
    Convertido =>
        /\ devuelto[2] = <<"N", "I", "U">> => devuelto[3] = <<"U", "N", "I", "D", "A", "D">>
        /\ \A p \in CATALOGO_03_UNIDAD_MEDIDA : devuelto[2] = p[1] => devuelto[3] = p[2]
        /\ (devuelto[2] # None /\ ~EnCatalogo03(devuelto[2])) => devuelto[3] = devuelto[2]


(***************************************************************************)
(* C15: validar_ruc                                                        *)
(***************************************************************************)
Validado == devuelto # <<>> /\ devuelto[1] = "validar_ruc"

\* the argument is a str of digits only
CadenaDeDigitos(v) == EsTexto(v) /\ \A i \in 1..Len(v) : v[i] \in Digits

Clasificado(tipo) ==
    /\ DOMAIN devuelto[3] = {"valido", "tipo", "ruc", "mensaje"}
    /\ devuelto[3].valido = TRUE
    /\ devuelto[3].tipo = tipo

NoValido == "valido" \in DOMAIN devuelto[3] /\ devuelto[3].valido = FALSE

LlamadasImg == {i \in 1..Len(llamadas) : llamadas[i].motor = "procesar_factura_img"}

\* C16: the OCR model is constructed at most once per process: a call of
\* obtener_modelo_doctr constructs it only while _modelo_doctr is None, and
\* once _modelo_doctr is set no later call constructs, resets or replaces it.
C16_ModeloUnaVez ==
    [][/\ modelo_doctr = "model" => modelo_doctr' = "model" /\ cargas' = cargas
       /\ modelo_doctr' # modelo_doctr => modelo_doctr = "None" /\ cargas' = cargas + 1
       /\ cargas' # cargas => modelo_doctr = "None"]_vars

\* two images processed, the second one with the model the first one built
C16_Witness ==
    /\ Cardinality(LlamadasImg) = 2
    /\ \A i \in LlamadasImg : llamadas[i].retorno # <<>>
    /\ modelo_doctr = "model"
    /\ cargas = 1


(***************************************************************************)
(* C17: one document at a time                                             *)
(***************************************************************************)
\* the request is between choosing its temp file name and delivering its response
EnCurso(r) == pc[r] \in {"guardar", "enrutar", "finally"}

\* C17: documents are processed one at a time: from the start of writing the
\* temp file to the end of the cleanup procesar_documento does not yield, so
\* at most one request is writing, extracting or deleting, and it is the one
\* holding the event loop; every other request has not started or is finished.
C17_UnoALaVez ==
    \A r \in Reqs :
        /\ EnCurso(r) <=> corriendo = r
        /\ EnCurso(r) => \A q \in Reqs \ {r} : pc[q] \in {"idle", "done"}

\* the second request is at its extractor after the first went through
\* write, extraction and cleanup
C17_Witness ==
    /\ pc[1] = "done" /\ eventos[1] = <<"written", "invoked", "removed", "responded">>
    /\ pc[2] = "enrutar" /\ eventos[2] = <<"written">>


(***************************************************************************)
(* C18: the importe total of v5 against valorVenta + igv                   *)
(***************************************************************************)
EsV5 == totales # <<>> /\ totales.version = "v5"

\* the amounts the "Importe Total" lines of the text carry
ImportesDeLaImagen ==
    {totales.entrada.lineas[i].monto :
        i \in {j \in 1..Len(totales.entrada.lineas) :
                  totales.entrada.lineas[j].etiqueta = "IMPORTE TOTAL"}}

\* the importe total held when the last line of the text has been processed
ImporteTrasLasLineas ==
    TotalesLeidos(totales.entrada.montos_limpios, totales.entrada.lineas).importe_total

SumaDevuelta == Suma(totales.respuesta.valorVenta, totales.respuesta.igv)

DifiereMasDe10(importe) == Mayor(Abs(Resta(importe, SumaDevuelta)), Dec(10, 0))

NotasDevueltas == {totales.respuesta.validacion[i] : i \in 1..Len(totales.respuesta.validacion)}

NotasDeIgv == {n \in NotasDevueltas : n[1] = "ADVERTENCIA: IGV no es ~18% de Valor Venta"}

\* the notes that report neither the IGV, nor the missing lines, nor "OK"
NotasDeReemplazo ==
    {n \in NotasDevueltas : n \notin NotasDeIgv /\ n # NotaSinLineas /\ n # <<"OK">>}

\* igv is 5% or more of the expected value away from 18% of valorVenta:
\* 100 * |igv - 0.18 valorVenta| >= 5 * 0.18 valorVenta
IgvDesviado ==
    LET r == totales.respuesta
    IN  ~Menor(Por(Dec(100, 0), Abs(Resta(r.igv, Por(Dec(18, 2), r.valorVenta)))),
               Por(Dec(5, 0), Por(Dec(18, 2), r.valorVenta)))

\* the totals held when the last line of the text has been processed
TrasLasLineas == TotalesLeidos(totales.entrada.montos_limpios, totales.entrada.lineas)

\* C19: in the final cross-validation of v5 an IGV warning is appended to the
\* validation list exactly when valorVenta > 0, igv > 0 and igv deviates from
\* 18% of valorVenta by 5% of that value or more; the check changes neither
\* igv nor valorVenta; and every override of a total (here: an importe total
\* returned different from the one the image carries) is reported by a note
\* of the returned validacion list.
C19_ReemplazoAnotado ==
    EsV5 =>
        /\ (NotasDeIgv # {}) <=>
              (Mayor(totales.respuesta.valorVenta, Cero) /\ Mayor(totales.respuesta.igv, Cero)
                 /\ IgvDesviado)
        /\ totales.respuesta.igv = TrasLasLineas.igv
        /\ totales.respuesta.valorVenta = TrasLasLineas.valor_venta
        /\ (\E leido \in ImportesDeLaImagen : leido # totales.respuesta.importeTotal)
              => NotasDeReemplazo # {}


(***************************************************************************)
(* C20: the totals of v6                                                   *)
(***************************************************************************)
EsV6 == totales # <<>> /\ totales.version = "v6"

RECURSIVE TotalCuotas(_)
TotalCuotas(k) ==
    IF k = 0 THEN Cero ELSE Suma(TotalCuotas(k - 1), totales.entrada.montos_cuotas[k])

\* x is an amount in whole cents
EnCentimos(x) == x.e <= 2

\* y is x rounded to the cent: in whole cents and at most half a cent away
RedondeoDe(y, x) == EnCentimos(y) /\ ~Mayor(Abs(Resta(y, x)), Dec(5, 3))

\* C20: every result of v6 has importeTotal = valorVenta + igv to the cent and
\* subtotalVenta = valorVenta. When the installments sum to more than 0,
\* importeTotal is that sum and valorVenta is importeTotal / 1.18 rounded to
\* the cent (1.18 * valorVenta within 0.0059 of importeTotal), whatever the
\* unit price; otherwise, when a unit price was read, valorVenta is the unit
\* price times the quantity 1 and igv is 18% of it rounded to the cent;
\* otherwise the four totals are 0.
C20_TotalesV6 ==
    EsV6 =>
        LET r == totales.respuesta
            suma_cuotas == TotalCuotas(Len(totales.entrada.montos_cuotas))
            valor_unitario == totales.entrada.valor_unitario
        IN  /\ Menor(Abs(Resta(r.importeTotal, Suma(r.valorVenta, r.igv))), Dec(1, 2))
            /\ r.subtotalVenta = r.valorVenta
            /\ Mayor(suma_cuotas, Cero) =>
                  /\ r.importeTotal = suma_cuotas
                  /\ EnCentimos(r.valorVenta)
                  /\ ~Mayor(Abs(Resta(Por(Dec(118, 2), r.valorVenta), r.importeTotal)), Dec(59, 4))
            /\ (~Mayor(suma_cuotas, Cero) /\ Mayor(valor_unitario, Cero)) =>
                  /\ r.valorVenta = Por(valor_unitario, r.cantidad)
                  /\ r.cantidad = Dec(1, 0)
                  /\ RedondeoDe(r.igv, Por(Dec(18, 2), r.valorVenta))
            /\ (~Mayor(suma_cuotas, Cero) /\ ~Mayor(valor_unitario, Cero)) =>
                  /\ r.valorVenta = Cero /\ r.subtotalVenta = Cero
                  /\ r.igv = Cero /\ r.importeTotal = Cero

\* installments of 1652.00 and 2478.00 with a unit price of 4200.00: the total
\* is 4130.00, its base 3500.00 and its IGV 630.00
C20_Witness ==
    /\ EsV6
    /\ totales.entrada.valor_unitario = Dec(4200, 0)
    /\ totales.entrada.montos_cuotas = <<Dec(1652, 0), Dec(2478, 0)>>
    /\ totales.respuesta.importeTotal = Dec(4130, 0)
    /\ totales.respuesta.valorVenta = Dec(3500, 0)
    /\ totales.respuesta.igv = Dec(630, 0)


(***************************************************************************)
(* C21: the installment schedule of procesar_factura_xml                   *)
(***************************************************************************)
XmlConFactura == ProcesadoXml /\ EsExito(resultado[1])

\* the text of an element as the extractor reads it: stripped, "" when the
\* element or its text is missing
TextoDe(nodo) == IF nodo.present THEN Strip(nodo.text) ELSE <<>>

TerminoDeCuota(term) ==
    /\ Contains(TextoDe(term.id), <<"F", "o", "r", "m", "a", "P", "a", "g", "o">>)
    /\ Contains(TextoDe(term.means), <<"C", "u", "o", "t", "a">>)
    /\ ~Contains(TextoDe(term.means), <<"C", "r", "e", "d", "i", "t", "o">>)

TerminoDeCredito(term) ==
    /\ Contains(TextoDe(term.id), <<"F", "o", "r", "m", "a", "P", "a", "g", "o">>)
    /\ Contains(TextoDe(term.means), <<"C", "r", "e", "d", "i", "t", "o">>)

\* the positions of the installment terms up to position i, in document order
CuotasHasta(i) == {j \in 1..i : TerminoDeCuota(xml.doc.payment_terms[j])}

\* n is the integer formed by the first run of digits of s
PrimerNumero(s, n) ==
    \E i \in 1..Len(s) : \E j \in i..Len(s) :
        /\ \A k \in 1..(i - 1) : s[k] \notin Digits
        /\ \A k \in i..j : s[k] \in Digits
        /\ (j < Len(s) => s[j + 1] \notin Digits)
        /\ n = DigitsVal(SubSeq(s, i, j))

SinDigitos(s) == \A k \in 1..Len(s) : s[k] \notin Digits

\* f is the date d (yyyy-mm-dd) written dd/mm/yyyy
FechaReescrita(d, f) ==
    /\ Len(d) = 10 /\ d[5] = "-" /\ d[8] = "-"
    /\ f = SubSeq(d, 9, 10) \o <<"/">> \o SubSeq(d, 6, 7) \o <<"/">> \o SubSeq(d, 1, 4)

MontoDe(nodo) ==
    IF nodo.present /\ IsFloatLiteral(nodo.text) THEN FloatOf(nodo.text) ELSE Cero

\* C21: procesar_factura_xml builds the installments from the PaymentTerms in
\* document order: each term whose ID contains "FormaPago" and whose
\* PaymentMeansID contains "Cuota" and not "Credito" adds exactly one entry,
\* numbered by the first run of digits of its PaymentMeansID (by its place in
\* the list when it has no digit), dated with its PaymentDueDate rewritten from
\* yyyy-mm-dd to dd/mm/yyyy (empty when it has none) and carrying its Amount;
\* no other term adds an entry, and totalCuota is the length of cuotas.
C21_Cuotas ==
    XmlConFactura =>
        LET terms == xml.doc.payment_terms
            f == resultado[1].factura
        IN  /\ Len(f.cuotas) = Cardinality(CuotasHasta(Len(terms)))
            /\ f.totalCuota = Len(f.cuotas)
            /\ \A i \in CuotasHasta(Len(terms)) :
                  LET term == terms[i]
                      cuota == f.cuotas[Cardinality(CuotasHasta(i))]
                  IN  /\ \/ PrimerNumero(TextoDe(term.means), cuota.numero)
                         \/ /\ SinDigitos(TextoDe(term.means))
                            /\ cuota.numero = Cardinality(CuotasHasta(i))
                      /\ \/ FechaReescrita(TextoDe(term.due), cuota.fechaVencimiento)
                         \/ TextoDe(term.due) = <<>> /\ cuota.fechaVencimiento = <<>>
                      /\ cuota.monto = MontoDe(term.amount)

\* a second installment "Cuota012/3" of 1239.00 due 2024-04-30 after the
\* credit term and the first installment: two entries, numbered 1 and 12
C21_Witness ==
    /\ XmlConFactura
    /\ Len(xml.doc.payment_terms) = 3
    /\ TerminoDeCredito(xml.doc.payment_terms[1])
    /\ TextoDe(xml.doc.payment_terms[3].means) = <<"C", "u", "o", "t", "a", "0", "1", "2", "/", "3">>
    /\ resultado[1].factura.totalCuota = 2
    /\ resultado[1].factura.cuotas[1] =
           [numero |-> 1, fechaVencimiento |-> <<"2", "9", "/", "0", "2", "/", "2", "0", "2", "4">>, monto |-> Dec(2478, 0)]
    /\ resultado[1].factura.cuotas[2] =
           [numero |-> 12, fechaVencimiento |-> <<"3", "0", "/", "0", "4", "/", "2", "0", "2", "4">>, monto |-> Dec(1239, 0)]


(***************************************************************************)
(* C22: formaPago and montoNetoPendientePago of procesar_factura_xml       *)
(***************************************************************************)
Creditos == {j \in 1..Len(xml.doc.payment_terms) : TerminoDeCredito(xml.doc.payment_terms[j])}

UltimoCredito == CHOOSE j \in Creditos : \A k \in Creditos : k <= j

FormaPagoSegunCreditos ==
    /\ resultado[1].factura.formaPago = <<"C", "r", "é", "d", "i", "t", "o">> <=> Creditos # {}
    /\ resultado[1].factura.formaPago = <<"C", "o", "n", "t", "a", "d", "o">> <=> Creditos = {}

PendienteSegunCreditos ==
    resultado[1].factura.montoNetoPendientePago =
        IF Creditos = {} THEN Cero ELSE MontoDe(xml.doc.payment_terms[UltimoCredito].amount)

\* C22 as stated: formaPago is "Crédito" exactly when some PaymentTerms has an
\* ID containing "FormaPago" and a PaymentMeansID containing "Credito", and
\* "Contado" otherwise; montoNetoPendientePago is the Amount of the last such
\* term, 0.00 when there is none; and a result with a non-empty cuotas list
\* always has formaPago "Crédito".
C22_CuotasSoloACredito ==
    XmlConFactura =>
        /\ FormaPagoSegunCreditos
        /\ PendienteSegunCreditos
        /\ resultado[1].factura.cuotas # <<>> => resultado[1].factura.formaPago = <<"C", "r", "é", "d", "i", "t", "o">>

\* C22 amended: formaPago and montoNetoPendientePago follow the credit terms
\* alone; the cuotas list is filled from the installment terms whether or not
\* there is a credit term.
C22_FormaPago ==
    XmlConFactura => (FormaPagoSegunCreditos /\ PendienteSegunCreditos)

\* two credit terms, of 4956.00 and then 1000.00: the pending amount is the
\* one of the last
C22_Witness ==
    /\ XmlConFactura
    /\ Cardinality(Creditos) = 2
    /\ MontoDe(xml.doc.payment_terms[1].amount) = Dec(4956, 0)
    /\ resultado[1].factura.formaPago = <<"C", "r", "é", "d", "i", "t", "o">>
    /\ resultado[1].factura.montoNetoPendientePago = Dec(1000, 0)


(***************************************************************************)
(* C23: the igv of procesar_factura_xml                                    *)
(***************************************************************************)
\* the TaxSubtotals filed under tax scheme 1000, by TaxTotal and position
SubtotalesIgv ==
    UNION { { <<i, j>> : j \in {k \in 1..Len(xml.doc.tax_totals[i].subtotals) :
                                   TextoDe(xml.doc.tax_totals[i].subtotals[k].scheme) = <<"1", "0", "0", "0">>} } :
            i \in 1..Len(xml.doc.tax_totals) }

MontoSubtotal(p) == MontoDe(xml.doc.tax_totals[p[1]].subtotals[p[2]].amount)

\* C23: procesar_factura_xml reports as igv the tax filed under scheme 1000:
\* when the document has a TaxSubtotal of scheme 1000, igv is the TaxAmount of
\* an IGV subtotal, wherever it stands in its TaxTotal and whatever other
\* taxes share that TaxTotal; igv is 0.00 only when no subtotal carries an
\* amount under scheme 1000.
C23_IgvDelSubtotal ==
    XmlConFactura =>
        /\ SubtotalesIgv # {} =>
              \E p \in SubtotalesIgv : resultado[1].factura.igv = MontoSubtotal(p)
        /\ resultado[1].factura.igv = Cero =>
              \A p \in SubtotalesIgv : MontoSubtotal(p) = Cero


(***************************************************************************)
(* C24: corregir_monto_ocr and an amount that agrees with its reference    *)
(***************************************************************************)
EsCorreccion == totales # <<>> /\ totales.version = "corregir_monto_ocr"

ReferenciaPositiva ==
    /\ totales.entrada.monto_referencia # None
    /\ Mayor(totales.entrada.monto_referencia[2], Cero)

\* C24: corregir_monto_ocr never corrupts an amount that agrees with its
\* reference: an amount <= 0 is returned unchanged; with a positive reference
\* an amount of at most 3 times the reference is returned unchanged; and with
\* a reference the amount is changed by the comparison with the reference
\* only (to a value within the tolerance of it), never by stripping a leading
\* "5" or "51" on its own.
C24_SinCorromper ==
    EsCorreccion =>
        LET e == totales.entrada
            ref == e.monto_referencia[2]
        IN  /\ ~Mayor(e.monto, Cero) => totales.respuesta = e.monto
            /\ (ReferenciaPositiva /\ ~Mayor(e.monto, Por(Dec(3, 0), ref)))
                  => totales.respuesta = e.monto
            /\ (ReferenciaPositiva /\ totales.respuesta # e.monto)
                  => /\ Mayor(e.monto, Por(Dec(3, 0), ref))
                     /\ Menor(Abs(Resta(totales.respuesta, ref)), Por(e.tolerancia, ref))


(***************************************************************************)
(* C25: the lines of extraer_texto_easyocr partition the tokens            *)
(***************************************************************************)
EsLectura == extraido # <<>> /\ extraido.paso = "extraer_texto_easyocr"

Veces(s, f) == Cardinality({i \in 1..Len(s) : s[i] = f})

\* the positions of the sorted tokens at which a line starts: the first one
\* and each one more than 15 pixels below the token before it
Cortes(o) == {i \in 1..Len(o) : i = 1 \/ o[i].y - o[i - 1].y > 15}

\* the last position of the line that starts at position c
FinDeLinea(o, c) ==
    IF \E d \in Cortes(o) : d > c
    THEN (CHOOSE d \in Cortes(o) : d > c /\ \A d2 \in Cortes(o) : d2 > c => d <= d2) - 1
    ELSE Len(o)

\* C25: the lines of extraer_texto_easyocr partition the OCR tokens. The
\* tokens are sorted by (top-left y, top-left x); a line starts at the first
\* token and exactly at each token whose y exceeds the y of the token before
\* it by more than 15; each line is made of the texts of the tokens from its
\* start up to the token before the next start, in sorted order, so every
\* token is in one line, once, and no line is without a token.
C25_LineasParticion ==
    EsLectura =>
        LET o == extraido.respuesta.resultados_ordenados
            lineas == extraido.respuesta.lineas
        IN  /\ Len(o) = Len(extraido.entrada)
            /\ \A f \in Fichas : Veces(o, f) = Veces(extraido.entrada, f)
            /\ \A i, j \in 1..Len(o) :
                  i < j => (o[i].y < o[j].y \/ (o[i].y = o[j].y /\ o[i].x <= o[j].x))
            /\ Len(lineas) = Cardinality(Cortes(o))
            /\ \A c \in Cortes(o) :
                  /\ FinDeLinea(o, c) >= c
                  /\ lineas[Cardinality({d \in Cortes(o) : d <= c})] =
                        JoinCon([i \in 1..(FinDeLinea(o, c) - c + 1) |-> o[c + i - 1].texto], " ")
            /\ extraido.respuesta.texto = JoinCon(lineas, "\n")

\* tokens read at heights 31, 15 and 0: sorted, the gaps are 15 and 16, so the
\* first two make one line and the third starts another
C25_Witness ==
    /\ EsLectura
    /\ Len(extraido.entrada) = 3
    /\ extraido.entrada[1] = [y |-> 31, x |-> 0, texto |-> <<"S", "/">>]
    /\ extraido.entrada[2] = [y |-> 15, x |-> 7, texto |-> <<"4", ",", "2", "0", "0", ".", "0", "0">>]
    /\ extraido.entrada[3] = [y |-> 0, x |-> 0, texto |-> <<"S", "/">>]
    /\ extraido.respuesta.lineas = << <<"S", "/", " ", "4", ",", "2", "0", "0", ".", "0", "0">>, <<"S", "/">> >>


(***************************************************************************)
(* C26: the installments read from an image by procesador_imagen           *)
(***************************************************************************)
EsCuotasImagen == extraido # <<>> /\ extraido.paso = "cuotas_imagen"

\* the number an amount text of the pairs denotes: its digits, two of them
\* decimals
ValorDelTexto(t) == Norm(DigitsVal(SelectSeq(t, LAMBDA c : c \in Digits)), 2)

\* the pair at position p is accepted: above 100 and not seen before with the
\* same date and the same value
ParAceptado(pares, p) ==
    /\ Mayor(ValorDelTexto(pares[p][2]), Dec(100, 0))
    /\ \A q \in 1..(p - 1) :
          ~(pares[q][1] = pares[p][1]
              /\ ValorDelTexto(pares[q][2]) = ValorDelTexto(pares[p][2]))

\* C26: whatever date/amount pairs the text holds, the cuotas of
\* procesador_imagen are numbered 1..n in order of first appearance, each has
\* monto > 100, no two have the same fechaVencimiento and the same monto, and
\* totalCuota is n whatever the text states as "Total de Cuotas".
C26_CuotasImagen ==
    EsCuotasImagen =>
        LET pares == extraido.entrada.cuotas_match
            cuotas == extraido.respuesta.cuotas
            aceptados == {p \in 1..Len(pares) : ParAceptado(pares, p)}
        IN  /\ extraido.respuesta.totalCuota = Len(cuotas)
            /\ Len(cuotas) = Cardinality(aceptados)
            /\ \A k \in 1..Len(cuotas) :
                  /\ cuotas[k].numero = k
                  /\ Mayor(cuotas[k].monto, Dec(100, 0))
            /\ \A k, l \in 1..Len(cuotas) :
                  (k # l) => ~(cuotas[k].fechaVencimiento = cuotas[l].fechaVencimiento
                                 /\ cuotas[k].monto = cuotas[l].monto)
            /\ \A p \in aceptados :
                  LET k == Cardinality({q \in aceptados : q <= p})
                  IN  /\ cuotas[k].fechaVencimiento = pares[p][1]
                      /\ cuotas[k].monto = ValorDelTexto(pares[p][2])

\* the text states "Total de Cuotas 3" and holds 2,478.00 due 29/02/2024 and
\* the same pair again written 2478.00: one installment
C26_Witness ==
    /\ EsCuotasImagen
    /\ extraido.entrada.total_cuotas = 3
    /\ extraido.entrada.cuotas_match =
           << <<<<"2", "9", "/", "0", "2", "/", "2", "0", "2", "4">>, <<"2", ",", "4", "7", "8", ".", "0", "0">>>>, <<<<"2", "9", "/", "0", "2", "/", "2", "0", "2", "4">>, <<"2", "4", "7", "8", ".", "0", "0">>>> >>
    /\ extraido.respuesta.totalCuota = 1
    /\ extraido.respuesta.cuotas =
           << [numero |-> 1, fechaVencimiento |-> <<"2", "9", "/", "0", "2", "/", "2", "0", "2", "4">>, monto |-> Dec(2478, 0)] >>


(***************************************************************************)
(* C27: the installments read from a PDF by procesador_pdf_v2              *)
(***************************************************************************)
EsCuotasPdfV2 == extraido # <<>> /\ extraido.paso = "cuotas_pdf_v2"

\* the installments in the order the code meets them: those of the lines of
\* the text, then the i-th annotated number with the i-th annotated date and
\* the i-th annotated amount
EncontradasEnTexto == CuotasDelTexto(Split(extraido.entrada.texto_completo, "\n"))

EncontradasEnAnotaciones ==
    LET numeros == numeros_cuota(extraido.entrada.pdf_anotaciones)
        fechas == fechas_cuota(extraido.entrada.pdf_anotaciones)
        montos == montos_cuota(extraido.entrada.pdf_anotaciones)
        completas == {i \in 1..Len(numeros) : i <= Len(fechas) /\ i <= Len(montos)}
    IN  [i \in 1..Cardinality(completas) |->
            [numero |-> numeros[i], fechaVencimiento |-> fechas[i], monto |-> montos[i]]]

PrimeraCon(encontradas, numero) ==
    encontradas[CHOOSE i \in 1..Len(encontradas) :
                    /\ encontradas[i].numero = numero
                    /\ \A j \in 1..(i - 1) : encontradas[j].numero # numero]

\* C27: the cuotas procesador_pdf_v2 returns have pairwise distinct numbers
\* between 1 and 20 in ascending order, and for each number the first
\* installment met, those of the page text before those of the annotations.
C27_CuotasPdfV2 ==
    EsCuotasPdfV2 =>
        LET cuotas == extraido.respuesta
            del_texto == EncontradasEnTexto
            encontradas == del_texto \o EncontradasEnAnotaciones
            numeros == {encontradas[i].numero : i \in 1..Len(encontradas)}
        IN  /\ \A k, l \in 1..Len(cuotas) : k < l => cuotas[k].numero < cuotas[l].numero
            /\ \A k \in 1..Len(cuotas) : cuotas[k].numero \in 1..20
            /\ {cuotas[k].numero : k \in 1..Len(cuotas)} = numeros
            /\ \A k \in 1..Len(cuotas) :
                  /\ cuotas[k] = PrimeraCon(encontradas, cuotas[k].numero)
                  /\ (\E i \in 1..Len(del_texto) : del_texto[i].numero = cuotas[k].numero)
                       => cuotas[k] = PrimeraCon(del_texto, cuotas[k].numero)

\* the text holds installment 1 twice, due 01/12/2025 and due 28/12/2025; the
\* annotations give a date and an amount to number 2 and none to number 1
C27_Witness ==
    /\ EsCuotasPdfV2
    /\ extraido.entrada.texto_completo = <<"1", " ", "0", "1", "/", "1", "2", "/", "2", "0", "2", "5", " ", "2", ",", "1", "0", "0", ".", "0", "0", " ", "1", " ", "2", "8", "/", "1", "2", "/", "2", "0", "2", "5", " ", "5", "0", "0", ".", "0", "2">>
    /\ extraido.entrada.pdf_anotaciones = <<<<"2">>, <<"1">>, <<"3", "0", "/", "1", "2", "/", "2", "0", "2", "5">>, <<"2", ",", "6", "2", "5", ".", "0", "0">>>>
    /\ extraido.respuesta =
           << [numero |-> 1, fechaVencimiento |-> <<"0", "1", "/", "1", "2", "/", "2", "0", "2", "5">>, monto |-> Dec(2100, 0)],
              [numero |-> 2, fechaVencimiento |-> <<"3", "0", "/", "1", "2", "/", "2", "0", "2", "5">>, monto |-> Dec(2625, 0)] >>


(***************************************************************************)
(* C28: the tax IDs assigned from free text                                *)
(***************************************************************************)
EsRucs == extraido # <<>> /\ extraido.paso = "rucs"

\* C28: in procesador_imagen, procesador_imagen_v5 and procesador_pdf_v2 the
\* rucReceptor returned is 0 or differs from the rucEmisor returned, whatever
\* tax IDs the text holds and in whatever order.
C28_RucsDistintos ==
    EsRucs =>
        \/ extraido.respuesta.ruc_receptor = IntCero
        \/ extraido.respuesta.ruc_receptor # extraido.respuesta.ruc_emisor


(***************************************************************************)
(* C29: the temp files of different requests                               *)
(***************************************************************************)
\* the request has chosen its temp file name
ConNombre(r) == nombre_temporal[r] # NoPath

\* the request created its temp file and has not removed it
ArchivoPendiente(r) ==
    /\ \E i \in 1..Len(eventos[r]) : eventos[r][i] \in {"written", "created"}
    /\ \A i \in 1..Len(eventos[r]) : eventos[r][i] # "removed"

\* C29: temp files of different requests never collide: two requests use
\* distinct temp file paths, an extractor reads the file of the request that
\* called it, and a file is on disk exactly while the request that created it
\* has not removed it, so no request overwrites or deletes the file of another.
C29_SinColision ==
    /\ \A r, q \in Reqs :
          (r # q /\ ConNombre(r) /\ ConNombre(q)) => nombre_temporal[r] # nombre_temporal[q]
    /\ \A i \in 1..Len(llamadas) : llamadas[i].ruta = nombre_temporal[llamadas[i].req]
    /\ disco = {nombre_temporal[r] : r \in {q \in Reqs : ArchivoPendiente(q)}}
    /\ \A r \in Reqs : ArchivoPendiente(r) => ConNombre(r)

\* the file of the first request stayed on disk (os.remove failed) and the
\* second request, with the same extension, has written its own
C29_Witness ==
    /\ pc[1] = "done" /\ eventos[1] = <<"written", "invoked", "remove_failed", "responded">>
    /\ pc[2] = "enrutar" /\ eventos[2] = <<"written">>
    /\ nombre_temporal[1][2] = nombre_temporal[2][2]
    /\ disco = {nombre_temporal[1], nombre_temporal[2]}
    /\ Cardinality(disco) = 2


(***************************************************************************)
(* C30: limpiar_monto on amounts that were read correctly                  *)
(***************************************************************************)
\* the positions of the commas of t
PosComas(t) == {i \in 1..Len(t) : t[i] = ","}

\* a well-formed amount without currency marker: digits, commas before
\* groups of three digits, a period and two decimals
ImporteBienFormado(t) ==
    /\ EsTexto(t)
    /\ Len(t) >= 4
    /\ t[Len(t) - 2] = "."
    /\ t[1] \in Digits /\ t[Len(t) - 1] \in Digits /\ t[Len(t)] \in Digits
    /\ \A i \in 1..(Len(t) - 3) : t[i] \in Digits \cup {","}
    /\ \A i \in PosComas(t) :
          /\ i + 3 <= Len(t) - 3
          /\ \A j \in (i + 1)..(i + 3) : t[j] \in Digits
          /\ t[i + 4] \in {",", "."}

\* C30: limpiar_monto (v5 and v6) preserves correctly-read amounts: for a
\* well-formed amount token without currency marker the result is the number
\* the token denotes; no leading digit of the amount is stripped.
C30_ImportesBienLeidos ==
    (monto # <<>> /\ monto[1] \in {"v5", "v6"} /\ ImporteBienFormado(valor_str)) =>
        monto[2] = Decimal(SelectSeq(valor_str, LAMBDA c : c \in Digits), 2)

====
